---------------------------- MODULE Spec2Model ----------------------------
(***************************************************************************)
(* A model of the resource resolution and decoding engine of rs-tiled:     *)
(* the GID table and its resolver (src/util.rs), the layer data decoder    *)
(* (src/layers/tile/util.rs), the child-tag dispatch loop (parse_tag,      *)
(* src/util.rs), the document entry points (src/parse/xml/*.rs) and the    *)
(* cached loading of external tilesets and templates (src/template.rs).    *)
(*                                                                         *)
(* One module holds several specifications over the same variables; each   *)
(* one leaves the variables of the other parts at their idle values.       *)
(*   SpecGid   the tileset table and get_tileset_for_gid                   *)
(*   SpecData  parse_data_line over the tokens of one <data> element       *)
(*   SpecLoad  a document load: root search, parse_tag, layer payloads     *)
(*   SpecCache loads of external tilesets/templates through one cache      *)
(*   SpecProps parse_properties over the tokens of one <properties> block  *)
(*   SpecValue PropertyValue::new and Color::from_str on bounded texts     *)
(*   SpecItems the object and frame lists collected by parse_tag           *)
(***************************************************************************)
EXTENDS Integers, Sequences, FiniteSets, TLC

VARIABLES
    \* the GID table
    tilesets,   \* the table Vec<MapTilesetGid>, in push order
    declared,   \* ghost: the first_gid of every <tileset> declaration, in order
    lookup,     \* the last call of get_tileset_for_gid: its argument and result
    \* the document, as far as it has been read
    docOpen,    \* the elements open at the reader's position, outermost first
    nread,      \* the tokens read so far
    atEof,      \* the last token read was Event::Eof
    elements,   \* ghost: the <template>, <object> and <frame> tags read so far
    token,      \* ghost: the last token read
    \* the parser
    last_event_was_empty,   \* Parser::last_event_was_empty
    pc,         \* the loop the parse stands in
    stack,      \* the close tags of the parse_tag calls in progress
    result,     \* what the load returned
    \* one call of parse_data_line
    zstd,       \* the build has the "zstd" feature
    encoding,   \* Option<&str>
    compression,\* Option<&str>
    skipped,    \* the tokens the text scan has ignored
    ret,        \* what parse_data_line returned
    payload,    \* ghost: how the text scan ended, and the cells the text holds
    lookups,    \* ghost: the calls of get_tileset_for_gid made for the payload
    \* a session of loads through one ResourceCache
    cache,      \* the ResourceCache: path -> handle, for tilesets and templates
    reads,      \* ghost: per path, the calls read_from.read_from(path)
    frames,     \* the load routines in progress, outermost first
    docs,       \* what the reader finds at each path
    served,     \* ghost: the <<path, handle>> pairs handed to a requester
    made,       \* the handles (Arc allocations and Tileset values) made so far
    loads,      \* the loads the session has started
    out,        \* what the last load returned
    \* the property value model
    props,      \* the HashMap p of every parse_properties call in progress
    prop,       \* the locals of parse_properties_inner: t, v_attr, k, p_t
    seen,       \* ghost: the number of tokens parse_tag has matched
    property_type,  \* PropertyValue::new: its first argument
    value,      \* PropertyValue::new: its second argument
    converted,  \* what PropertyValue::new returned
    \* the lists collected by a parse_tag call
    objects,    \* objects: Vec<ObjectData>, animation: Vec<Frame>
    object,     \* parse_external_template: object: Option<ObjectData>
    building    \* the object of the ObjectData::new call in progress

gidVars == <<tilesets, declared, lookup>>

docVars == <<docOpen, nread, atEof, elements, token, last_event_was_empty>>

ctlVars == <<pc, stack, result>>

dataVars == <<zstd, encoding, compression, skipped, ret, payload, lookups>>

cacheVars == <<cache, reads, frames, docs, served, made, loads, out>>

propVars == <<props, prop, seen, property_type, value, converted>>

itemVars == <<objects, object, building>>

vars == <<gidVars, docVars, ctlVars, dataVars, cacheVars, propVars, itemVars>>

-----------------------------------------------------------------------------
(* Bounds of the model.                                                    *)

MaxTilesets == 3    \* tileset declarations per table
MaxFirstGid == 4    \* first_gid values 1..MaxFirstGid
MaxGid      == 5    \* identifiers 1..MaxGid handed to the resolver
MaxCells    == 2    \* cells of a generated payload
MaxJunk     == 2    \* tokens one text scan ignores
MaxTokens   == 7    \* tokens of a document before its end of input
MaxLoads    == 2    \* loads started in one session
MaxChildren == 2    \* child elements of one <template>
MaxDepth    == 2    \* templates being parsed at once
MaxPairs    == 4    \* pairs of characters in a generated color text

-----------------------------------------------------------------------------
(* Option<T>                                                               *)

None == [some |-> FALSE]

Some(v) == [some |-> TRUE, val |-> v]

SetMax(S) == CHOOSE m \in S : \A k \in S : k <= m

-----------------------------------------------------------------------------
(* Unsigned 32-bit values.  A u32 is kept as its top byte and its low 24   *)
(* bits, so that the three flip flags (bits 31, 30, 29) and every value up *)
(* to 2^32 - 1 are exact.                                                  *)

Pow24 == 256 * 256 * 256

U32(hi, lo) == [hi |-> hi, lo |-> lo]

U32Of(n) == U32(n \div Pow24, n % Pow24)

\* u32::from_le_bytes(chunk)
from_le_bytes(chunk) == U32(chunk[4], chunk[1] + 256 * chunk[2] + 65536 * chunk[3])

\* the four bytes of a u32, least significant first (the writer's side)
to_le_bytes(u) == <<u.lo % 256, (u.lo \div 256) % 256, u.lo \div 65536, u.hi>>

-----------------------------------------------------------------------------
(* Text: a sequence of one-character strings.                              *)

Digits == <<"0", "1", "2", "3", "4", "5", "6", "7", "8", "9">>

IsWhitespace(c) == c \in {" ", "\n", "\t", "\r"}

RECURSIVE TrimStart(_)
TrimStart(t) ==
    IF t # <<>> /\ IsWhitespace(Head(t)) THEN TrimStart(Tail(t)) ELSE t

RECURSIVE TrimEnd(_)
TrimEnd(t) ==
    IF t # <<>> /\ IsWhitespace(t[Len(t)])
    THEN TrimEnd(SubSeq(t, 1, Len(t) - 1)) ELSE t

\* str::trim, and BytesText::inplace_trim_start followed by inplace_trim_end
Trim(t) == TrimEnd(TrimStart(t))

\* text.split(','): the fields between the commas; an empty text is one
\* empty field
RECURSIVE SplitFrom(_, _)
SplitFrom(t, field) ==
    IF t = <<>> THEN <<field>>
    ELSE IF Head(t) = "," THEN <<field>> \o SplitFrom(Tail(t), <<>>)
    ELSE SplitFrom(Tail(t), Append(field, Head(t)))

Split(t) == SplitFrom(t, <<>>)

DigitVal(c) == (CHOOSE i \in 1..10 : Digits[i] = c) - 1

IsDigit(c) == \E i \in 1..10 : Digits[i] = c

\* the digits of a field folded into a u32, most significant first; None on
\* overflow of 32 bits
RECURSIVE FoldDigits(_, _)
FoldDigits(ds, acc) ==
    IF ds = <<>> THEN Some(acc)
    ELSE LET low == acc.lo * 10 + DigitVal(Head(ds))
             hi  == acc.hi * 10 + low \div Pow24
         IN IF hi > 255 THEN None
            ELSE FoldDigits(Tail(ds), U32(hi, low % Pow24))

\* str::parse::<u32>(): an optional '+', then one or more decimal digits
ParseU32(field) ==
    LET ds == IF field # <<>> /\ Head(field) = "+" THEN Tail(field) ELSE field
    IN IF ds = <<>> \/ \E i \in 1..Len(ds) : ~IsDigit(ds[i]) THEN None
       ELSE FoldDigits(ds, U32(0, 0))

\* the decimal text of a u32 (the writer's side)
RECURSIVE ToDecimal(_)
ToDecimal(u) ==
    LET rest == (u.hi % 10) * Pow24 + u.lo
        q    == U32(u.hi \div 10, rest \div 10)
        d    == <<Digits[(rest % 10) + 1]>>
    IN IF q = U32(0, 0) THEN d ELSE ToDecimal(q) \o d

-----------------------------------------------------------------------------
(* Bytes, base64 and the compressed containers.                            *)

B64Alphabet ==
    << "A", "B", "C", "D", "E", "F", "G", "H", "I", "J", "K", "L", "M",
       "N", "O", "P", "Q", "R", "S", "T", "U", "V", "W", "X", "Y", "Z",
       "a", "b", "c", "d", "e", "f", "g", "h", "i", "j", "k", "l", "m",
       "n", "o", "p", "q", "r", "s", "t", "u", "v", "w", "x", "y", "z",
       "0", "1", "2", "3", "4", "5", "6", "7", "8", "9", "+", "/" >>

IsB64(c) == \E i \in 1..64 : B64Alphabet[i] = c

B64Val(c) == (CHOOSE i \in 1..64 : B64Alphabet[i] = c) - 1

B64Char(v) == B64Alphabet[v + 1]

\* the padded standard-alphabet encoding of a byte string (the writer's side)
RECURSIVE B64Encode(_)
B64Encode(bs) ==
    IF bs = <<>> THEN <<>>
    ELSE IF Len(bs) = 1 THEN
        << B64Char(bs[1] \div 4), B64Char((bs[1] % 4) * 16), "=", "=" >>
    ELSE IF Len(bs) = 2 THEN
        << B64Char(bs[1] \div 4), B64Char((bs[1] % 4) * 16 + bs[2] \div 16),
           B64Char((bs[2] % 16) * 4), "=" >>
    ELSE
        << B64Char(bs[1] \div 4), B64Char((bs[1] % 4) * 16 + bs[2] \div 16),
           B64Char((bs[2] % 16) * 4 + bs[3] \div 64), B64Char(bs[3] % 64) >>
        \o B64Encode(SubSeq(bs, 4, Len(bs)))

\* the bytes of one group of four symbols; only the last group may be padded,
\* and its unused low bits must be zero (canonical padding)
B64Quad(q, last) ==
    LET v(i) == B64Val(q[i]) IN
    IF IsB64(q[1]) /\ IsB64(q[2]) /\ IsB64(q[3]) /\ IsB64(q[4]) THEN
        Some(<< v(1) * 4 + v(2) \div 16,
                (v(2) % 16) * 16 + v(3) \div 4,
                (v(3) % 4) * 64 + v(4) >>)
    ELSE IF last /\ IsB64(q[1]) /\ IsB64(q[2]) /\ IsB64(q[3]) /\ q[4] = "=" THEN
        IF v(3) % 4 = 0
        THEN Some(<< v(1) * 4 + v(2) \div 16, (v(2) % 16) * 16 + v(3) \div 4 >>)
        ELSE None
    ELSE IF last /\ IsB64(q[1]) /\ IsB64(q[2]) /\ q[3] = "=" /\ q[4] = "=" THEN
        IF v(2) % 16 = 0 THEN Some(<< v(1) * 4 + v(2) \div 16 >>) ELSE None
    ELSE None

RECURSIVE B64Quads(_)
B64Quads(t) ==
    LET q == B64Quad(SubSeq(t, 1, 4), Len(t) = 4) IN
    IF ~q.some THEN None
    ELSE IF Len(t) = 4 THEN q
    ELSE LET rest == B64Quads(SubSeq(t, 5, Len(t))) IN
         IF rest.some THEN Some(q.val \o rest.val) ELSE None

\* GeneralPurpose::new(&STANDARD, PAD).decode(text): None is a DecodeError
B64Decode(t) ==
    IF t = <<>> THEN Some(<<>>)
    ELSE IF Len(t) % 4 # 0 THEN None
    ELSE B64Quads(t)

\* The decoders of flate2 and zstd lie outside the repository.  A compressed
\* stream is modelled as a container: one header byte that names the format
\* (the first byte of a zlib, gzip or zstd stream) followed by the stored
\* content.
Magic(kind) ==
    CASE kind = "zlib" -> 120
      [] kind = "gzip" -> 31
      [] kind = "zstd" -> 40

\* the writer's side
Deflate(kind, bs) == <<Magic(kind)>> \o bs

\* decoder.read_to_end(&mut data) of the decoder `kind` over `data`; None is
\* an io::Error.  Any input that is not a stream of the format is an error.
\* The empty input is no stream either: the gzip decoder fails on its missing
\* header, while a zlib or zstd decoder may, depending on its backend, report
\* a plain end of stream instead (lenient).
Inflate(kind, data, lenient) ==
    IF data = <<>> THEN
        IF kind # "gzip" /\ lenient THEN Some(<<>>) ELSE None
    ELSE IF data[1] = Magic(kind) THEN Some(Tail(data))
    ELSE None

-----------------------------------------------------------------------------
(* The GID table and the resolver.                                         *)

MapTilesetGid(f) == [first_gid |-> f]

\* tilesets.iter().enumerate().rev().find(|(_, ts)| ts.first_gid <= gid),
\* the scan standing at the 1-based position i (index i - 1 of the slice).
RECURSIVE RevFind(_, _, _)
RevFind(ts, gid, i) ==
    IF i = 0 THEN None
    ELSE IF ts[i].first_gid <= gid THEN Some(<<i - 1, ts[i]>>)
    ELSE RevFind(ts, gid, i - 1)

\* The same scan without .rev(): the first entry that qualifies.
RECURSIVE FwdFind(_, _, _)
FwdFind(ts, gid, i) ==
    IF i > Len(ts) THEN None
    ELSE IF ts[i].first_gid <= gid THEN Some(<<i - 1, ts[i]>>)
    ELSE FwdFind(ts, gid, i + 1)

get_tileset_for_gid_first(ts, gid) == FwdFind(ts, gid, 1)

get_tileset_for_gid(ts, gid) == RevFind(ts, gid, Len(ts))

-----------------------------------------------------------------------------
(* Raw cell values to Option<LayerTileData>.                               *)

\* the identifier left when the three flip flags are stripped
MaskedGid(bits) == (bits.hi % 32) * Pow24 + bits.lo

LayerTileData(idx, id, bits) ==
    [ tileset_index |-> idx, id |-> id,
      flip_h |-> bits.hi \div 128 = 1,
      flip_v |-> (bits.hi \div 64) % 2 = 1,
      flip_d |-> (bits.hi \div 32) % 2 = 1 ]

\* from_bits without its test for the empty identifier
from_bits_call_no_zero_test(bits, ts) ==
    LET gid == MaskedGid(bits)
        found == get_tileset_for_gid(ts, gid)
    IN [ ret |-> IF found.some
                 THEN Some(LayerTileData(found.val[1],
                                         gid - found.val[2].first_gid, bits))
                 ELSE None,
         consulted |-> TRUE ]

\* One call LayerTileData::from_bits(bits, tilesets): what it returns, and
\* whether it called get_tileset_for_gid.  The callers push the returned
\* Option<LayerTileData> as it is.
from_bits_call(bits, ts) ==
    LET gid == MaskedGid(bits) IN
    IF gid = 0 THEN [ret |-> None, consulted |-> FALSE]
    ELSE LET found == get_tileset_for_gid(ts, gid) IN
         [ ret |-> IF found.some
                   THEN Some(LayerTileData(found.val[1],
                                           gid - found.val[2].first_gid, bits))
                   ELSE None,
           consulted |-> TRUE ]

from_bits(bits, ts) == from_bits_call(bits, ts).ret

\* how many of the calls from_bits(raws[i], ts) consult the table
TableLookups(raws, ts) ==
    Cardinality({i \in 1..Len(raws) : from_bits_call(raws[i], ts).consulted})

Reverse(sq) == [i \in 1..Len(sq) |-> sq[Len(sq) + 1 - i]]

\* data.chunks_exact(4).map(u32::from_le_bytes): a trailing partial chunk is
\* left out
ChunkValues(data) ==
    [i \in 1..(Len(data) \div 4) |-> from_le_bytes(SubSeq(data, 4 * i - 3, 4 * i))]

\* the cells in the reverse of their chunk order
convert_to_tiles_reversed(data, ts) ==
    Reverse([i \in 1..Len(ChunkValues(data)) |-> from_bits(ChunkValues(data)[i], ts)])

convert_to_tiles(data, ts) ==
    [i \in 1..Len(ChunkValues(data)) |-> from_bits(ChunkValues(data)[i], ts)]

-----------------------------------------------------------------------------
(* Results and errors.                                                     *)

Pending == [state |-> "pending"]

Ok(v) == [state |-> "ok", val |-> v]

Err(e) == [state |-> "err", err |-> e]

IsOk(r) == r.state = "ok"

IsErr(r) == r.state = "err"

PrematureEnd == [kind |-> "PrematureEnd"]

XmlDecodingError == [kind |-> "XmlDecodingError"]

Base64DecodingError == [kind |-> "Base64DecodingError"]

DecompressingError == [kind |-> "DecompressingError"]

CsvDecodingError == [kind |-> "CsvDecodingError"]

ResourceLoadingError(path) == [kind |-> "ResourceLoadingError", path |-> path]

TemplateHasNoObject == [kind |-> "TemplateHasNoObject"]

InvalidEncodingFormat(e, c) ==
    [kind |-> "InvalidEncodingFormat", encoding |-> e, compression |-> c]

-----------------------------------------------------------------------------
(* The text of a payload, decoded.                                         *)

\* a byte sequence that is not UTF-8 is written as this one symbol
BadUtf8 == "<ff>"

IsUtf8(t) == \A i \in 1..Len(t) : t[i] # BadUtf8

\* the fields of a csv text parsed up to the first one that fails
RECURSIVE CsvValues(_)
CsvValues(fields) ==
    IF fields = <<>> THEN <<>>
    ELSE LET bits == ParseU32(Trim(Head(fields))) IN
         IF bits.some THEN <<bits.val>> \o CsvValues(Tail(fields)) ELSE <<>>

\* decode_csv on Event::Text(text): the raw values handed to from_bits, in
\* the order of the calls
CsvRaws(text) == IF IsUtf8(text) THEN CsvValues(Split(text)) ELSE <<>>

\* the body of the Event::Text arm of decode_csv, the tiles pushed last first
decode_csv_text_reversed(text, ts) ==
    IF ~IsUtf8(text) THEN Err(XmlDecodingError)
    ELSE IF Len(CsvRaws(text)) < Len(Split(text)) THEN Err(CsvDecodingError)
    ELSE Ok(Reverse([i \in 1..Len(CsvRaws(text)) |-> from_bits(CsvRaws(text)[i], ts)]))

\* the body of the Event::Text arm of decode_csv
decode_csv_text(text, ts) ==
    IF ~IsUtf8(text) THEN Err(XmlDecodingError)
    ELSE IF Len(CsvRaws(text)) < Len(Split(text)) THEN Err(CsvDecodingError)
    ELSE Ok([i \in 1..Len(CsvRaws(text)) |-> from_bits(CsvRaws(text)[i], ts)])

\* the body of the Event::Text arm of parse_base64
parse_base64_text(text) ==
    LET bytes == B64Decode(Trim(text)) IN
    IF bytes.some THEN Ok(bytes.val) ELSE Err(Base64DecodingError)

\* process_decoder(Ok(decoder over data))
process_decoder(kind, data, lenient) ==
    LET inflated == Inflate(kind, data, lenient) IN
    IF inflated.some THEN Ok(inflated.val) ELSE Err(DecompressingError)

\* parse_base64(parser).and_then(process_decoder): the bytes that reach
\* convert_to_tiles for the compression `c` (None: no decoder)
Decompressed(b64, c, lenient) ==
    IF IsErr(b64) \/ ~c.some THEN b64
    ELSE process_decoder(c.val, b64.val, lenient)

-----------------------------------------------------------------------------
(* The property value model: Color::from_str and PropertyValue::new.       *)
(* A text is a sequence of characters; s.len() counts bytes, and the one   *)
(* character of the model that is not ASCII takes two.                     *)

NonAscii == "é"

\* str::len(): the length in bytes
RECURSIVE ByteLen(_)
ByteLen(s) ==
    IF s = <<>> THEN 0
    ELSE (IF Head(s) = NonAscii THEN 2 ELSE 1) + ByteLen(Tail(s))

is_ascii(s) == \A i \in 1..Len(s) : s[i] # NonAscii

LowerHex == <<"a", "b", "c", "d", "e", "f">>

UpperHex == <<"A", "B", "C", "D", "E", "F">>

\* char::to_digit(16)
HexVal(c) ==
    IF IsDigit(c) THEN Some(DigitVal(c))
    ELSE IF \E i \in 1..6 : LowerHex[i] = c
    THEN Some(9 + CHOOSE i \in 1..6 : LowerHex[i] = c)
    ELSE IF \E i \in 1..6 : UpperHex[i] = c
    THEN Some(9 + CHOOSE i \in 1..6 : UpperHex[i] = c)
    ELSE None

RECURSIVE FoldHex(_, _)
FoldHex(ds, acc) ==
    IF ds = <<>> THEN Some(acc)
    ELSE IF ~HexVal(Head(ds)).some \/ acc * 16 + HexVal(Head(ds)).val > 255
    THEN None
    ELSE FoldHex(Tail(ds), acc * 16 + HexVal(Head(ds)).val)

\* u8::from_str_radix(src, 16): "an optional + sign followed by only digits";
\* an empty text, a lone sign, a '-' and a value over 255 are errors
u8_from_str_radix(src) ==
    IF src = <<>> THEN None
    ELSE LET digits == IF Head(src) = "+" THEN Tail(src) ELSE src
         IN IF digits = <<>> THEN None ELSE FoldHex(digits, 0)

\* s.strip_prefix('#'), or s itself
strip_prefix(s) == IF s # <<>> /\ Head(s) = "#" THEN Tail(s) ELSE s

Color(a, r, g, b) == [alpha |-> a, red |-> r, green |-> g, blue |-> b]

\* <Color as FromStr>::from_str: Some(color) for Ok, None for Err(())
from_str(text) ==
    LET s == strip_prefix(text)
        ch(i) == u8_from_str_radix(SubSeq(s, 2 * i - 1, 2 * i))
    IN IF ByteLen(s) = 6 /\ is_ascii(s)
       THEN (IF ch(1).some /\ ch(2).some /\ ch(3).some
             THEN Some(Color(255, ch(1).val, ch(2).val, ch(3).val))
             ELSE None)
       ELSE IF ByteLen(s) = 8 /\ is_ascii(s)
       THEN (IF ch(1).some /\ ch(2).some /\ ch(3).some /\ ch(4).some
             THEN Some(Color(ch(1).val, ch(2).val, ch(3).val, ch(4).val))
             ELSE None)
       ELSE None

\* the text of a string literal of the source
Str(lit) ==
    CASE lit = "true"     -> <<"t", "r", "u", "e">>
      [] lit = "false"    -> <<"f", "a", "l", "s", "e">>
      [] lit = "inf"      -> <<"i", "n", "f">>
      [] lit = "infinity" -> <<"i", "n", "f", "i", "n", "i", "t", "y">>
      [] lit = "nan"      -> <<"n", "a", "n">>

\* str::parse::<bool>()
ParseBool(t) ==
    IF t = Str("true") THEN Some(TRUE)
    ELSE IF t = Str("false") THEN Some(FALSE)
    ELSE None

\* str::parse::<i32>(): an optional sign, then decimal digits; the value is
\* kept as sign and magnitude
ParseI32(t) ==
    LET neg == t # <<>> /\ Head(t) = "-"
        ds  == IF t # <<>> /\ Head(t) \in {"+", "-"} THEN Tail(t) ELSE t
        mag == IF ds = <<>> \/ \E i \in 1..Len(ds) : ~IsDigit(ds[i]) THEN None
               ELSE FoldDigits(ds, U32(0, 0))
    IN IF ~mag.some THEN None
       ELSE IF mag.val.hi < 128 \/ (neg /\ mag.val = U32(128, 0))
       THEN Some([neg |-> neg /\ mag.val # U32(0, 0), mag |-> mag.val])
       ELSE None

AllDigits(t) == \A i \in 1..Len(t) : IsDigit(t[i])

\* the Number of the grammar of f32::from_str, without its exponent:
\* Digit+ | Digit+ '.' Digit* | Digit* '.' Digit+
IsDecimal(t) ==
    \/ t # <<>> /\ AllDigits(t)
    \/ \E i \in 1..Len(t) :
         /\ t[i] = "."
         /\ AllDigits(SubSeq(t, 1, i - 1))
         /\ AllDigits(SubSeq(t, i + 1, Len(t)))
         /\ Len(t) > 1

\* Number Exp?, Exp ::= 'e' Sign? Digit+
IsNumber(t) ==
    \/ IsDecimal(t)
    \/ \E i \in 1..Len(t) :
         /\ t[i] \in {"e", "E"}
         /\ IsDecimal(SubSeq(t, 1, i - 1))
         /\ LET ex == SubSeq(t, i + 1, Len(t))
                ds == IF ex # <<>> /\ Head(ex) \in {"+", "-"} THEN Tail(ex) ELSE ex
            IN ds # <<>> /\ AllDigits(ds)

\* str::parse::<f32>(): Sign? ( 'inf' | 'infinity' | 'nan' | Number ); the
\* float is kept as the literal it is the nearest value of
ParseF32(t) ==
    LET body == IF t # <<>> /\ Head(t) \in {"+", "-"} THEN Tail(t) ELSE t
    IN IF body \in {Str("inf"), Str("infinity"), Str("nan")} \/ IsNumber(body)
       THEN Some(t) ELSE None

InvalidPropertyValue(description) ==
    [kind |-> "InvalidPropertyValue", description |-> description]

UnknownPropertyType(type_name) ==
    [kind |-> "UnknownPropertyType", type_name |-> type_name]

MalformedAttributes(message, name) ==
    [kind |-> "MalformedAttributes", message |-> message, name |-> name]

\* a value of the enum PropertyValue: the variant and what it holds
PropertyValue(variant, v) == variant :> v

ClassValue(p_t, properties) ==
    PropertyValue("ClassValue", [property_type |-> p_t, properties |-> properties])

\* value.parse() of the arms "bool", "float", "int" and "object"
Parsed(variant, parsed, description) ==
    IF parsed.some THEN Ok(PropertyValue(variant, parsed.val))
    ELSE Err(InvalidPropertyValue(description))

\* the match of PropertyValue::new with the guard of its "color" arm dropped
PropertyValue_new_unguarded(t, v) ==
    CASE t = "bool"   -> Parsed("BoolValue", ParseBool(v), "ParseBoolError")
      [] t = "float"  -> Parsed("FloatValue", ParseF32(v), "ParseFloatError")
      [] t = "int"    -> Parsed("IntValue", ParseI32(v), "ParseIntError")
      [] t = "color"  -> Parsed("ColorValue", from_str(v), "Couldn't parse color")
      [] t = "string" -> Ok(PropertyValue("StringValue", v))
      [] t = "object" -> Parsed("ObjectValue", ParseU32(v), "ParseIntError")
      [] t = "file"   -> Ok(PropertyValue("FileValue", v))
      [] OTHER        -> Err(UnknownPropertyType(t))

\* PropertyValue::new(property_type, value): the arm "color" is guarded by
\* value.len() > 1, and a "color" that fails the guard reaches the last arm
PropertyValue_new(t, v) ==
    IF t = "color" /\ ~(ByteLen(v) > 1) THEN Err(UnknownPropertyType(t))
    ELSE PropertyValue_new_unguarded(t, v)

-----------------------------------------------------------------------------
(* The tileset table.                                                      *)

NoLookup == [done |-> FALSE]

NoPayload == [end |-> "", text |-> <<>>, cells |-> None]

\* tileset_gid.push(MapTilesetGid { tileset, first_gid: res.first_gid })
PushTileset(f) ==
    /\ Len(tilesets) < MaxTilesets
    /\ tilesets' = Append(tilesets, MapTilesetGid(f))
    /\ declared' = Append(declared, f)
    /\ lookup' = NoLookup
    /\ UNCHANGED <<docVars, ctlVars, dataVars, cacheVars, propVars, itemVars>>

\* one call get_tileset_for_gid(&tilesets, gid); the slice is only borrowed
Resolve(g) ==
    /\ lookup' = [done |-> TRUE, gid |-> g, res |-> get_tileset_for_gid(tilesets, g)]
    /\ UNCHANGED <<tilesets, declared, docVars, ctlVars, dataVars, cacheVars,
                   propVars, itemVars>>

\* the values of the variables a specification does not use
DocIdle ==
    /\ docOpen = <<>>
    /\ nread = 0
    /\ atEof = FALSE
    /\ elements = <<>>
    /\ last_event_was_empty = FALSE

CtlIdle ==
    /\ pc = "idle"
    /\ stack = <<>>
    /\ result = Pending

DataIdle ==
    /\ zstd = FALSE
    /\ encoding = None
    /\ compression = None
    /\ skipped = 0
    /\ ret = Pending
    /\ payload = NoPayload
    /\ lookups = 0

CacheIdle ==
    /\ cache = [tilesets |-> <<>>, templates |-> <<>>]
    /\ reads = <<>>
    /\ frames = <<>>
    /\ docs = <<>>
    /\ served = {}
    /\ made = 0
    /\ loads = 0
    /\ out = Pending

PropIdle ==
    /\ props = <<>>
    /\ prop = None
    /\ token = None
    /\ seen = 0
    /\ property_type = ""
    /\ value = <<>>
    /\ converted = [call |-> "", res |-> Pending]

ItemIdle ==
    /\ objects = <<>>
    /\ object = None
    /\ building = None

GidInit ==
    /\ CacheIdle
    /\ PropIdle
    /\ ItemIdle
    /\ tilesets = <<>>
    /\ declared = <<>>
    /\ lookup = NoLookup
    /\ DocIdle
    /\ CtlIdle
    /\ DataIdle

GidNext ==
    \/ \E f \in 1..MaxFirstGid : PushTileset(f)
    \/ \E g \in 1..MaxGid : Resolve(g)

SpecGid == GidInit /\ [][GidNext]_vars

-----------------------------------------------------------------------------
(* The document.  Its tokens are produced as the parser reads them; what   *)
(* is kept of the part already read is the list of the elements still      *)
(* open.  quick_xml checks that an end tag closes the innermost open       *)
(* element, so an Event::End always names the last of docOpen.             *)

\* the child elements a document places in each element ("" is the document
\* itself; "x" stands for any element the parser has no handler for)
Children(parent) ==
    CASE parent = ""      -> {"map", "x"}
      [] parent = "map"   -> {"layer", "x"}
      [] parent = "layer" -> {"data", "x"}
      [] parent = "data"  -> {"x"}
      [] parent = "properties"  -> {"property", "x"}
      [] parent = "property"    -> {"properties", "x"}
      [] parent = "objectgroup" -> {"object", "properties", "x"}
      [] parent = "object"      -> {"properties", "x"}
      [] parent = "animation"   -> {"frame", "x"}
      [] parent = "template"    -> {"object", "tileset", "x"}
      [] OTHER            -> {}

Innermost == IF docOpen = <<>> THEN "" ELSE docOpen[Len(docOpen)]

Encodings == {None, Some("csv"), Some("base64"), Some("xml")}

Compressions == {None, Some("zlib"), Some("gzip"), Some("zstd"), Some("lz4")}

Event(type, name) ==
    [ type |-> type, name |-> name, encoding |-> None, compression |-> None,
      text |-> <<>>, cells |-> None ]

\* <data encoding=e compression=c>
StartData(e, c) ==
    [Event("Start", "data") EXCEPT !.encoding = e, !.compression = c]

\* a text token; cells is what a writer encoded in it, if one did
TextEvent(t, cells) == [Event("Text", "") EXCEPT !.text = t, !.cells = cells]

\* every token but a text that may come next
StructuralEvents ==
    {Event("Eof", ""), Event("Err", ""), Event("Comment", "")}
    \cup (IF docOpen = <<>> THEN {} ELSE {Event("End", Innermost)})
    \cup {Event(t, n) : t \in {"Start", "Empty"}, n \in Children(Innermost) \ {"data"}}
    \cup (IF "data" \in Children(Innermost)
          THEN {StartData(e, c) : e \in Encodings, c \in Compressions}
          ELSE {})

\* the white space between two tags
Blank == TextEvent(<<"\n">>, None)

\* The raw cell values a writer puts in a payload.
RawValues == {U32(0, 0), U32(0, 1), U32(0, 2), U32(0, 3), U32(128, 1)}

ExampleCells == <<U32(0, 1), U32(0, 2), U32(0, 0), U32(0, 3)>>

CellSeqs ==
    UNION {[1..n -> RawValues] : n \in 1..MaxCells} \cup {ExampleCells}

RECURSIVE CsvText(_)
CsvText(cells) ==
    IF Len(cells) = 1 THEN ToDecimal(cells[1])
    ELSE ToDecimal(Head(cells)) \o <<",">> \o CsvText(Tail(cells))

RECURSIVE CellBytes(_)
CellBytes(cells) ==
    IF cells = <<>> THEN <<>> ELSE to_le_bytes(Head(cells)) \o CellBytes(Tail(cells))

\* the text a writer produces for the cells under (encoding, compression)
EncodePayload(e, c, cells) ==
    IF e = Some("csv") THEN CsvText(cells)
    ELSE B64Encode(IF c.some THEN Deflate(c.val, CellBytes(cells))
                   ELSE CellBytes(cells))

\* texts no writer produces: white space only, a letter, a trailing comma,
\* bytes that are not UTF-8, base64 of a wrong length, three zero bytes, an
\* empty zlib container, five bytes
OddTexts ==
    { <<"\n">>, <<"x">>, <<"1", ",">>, <<BadUtf8>>, <<"A">>,
      <<"A", "A", "A", "A">>, B64Encode(<<120>>), B64Encode(<<1, 0, 0, 0, 2>>) }

\* the text tokens a <data encoding=e compression=c> element may hold
PayloadTexts(e, c) ==
    {TextEvent(IF w THEN <<"\n">> \o EncodePayload(e, c, cells) \o <<"\n">>
               ELSE EncodePayload(e, c, cells), Some(cells)) :
        cells \in CellSeqs, w \in BOOLEAN}
    \cup {TextEvent(t, None) : t \in OddTexts}

\* Parser::last_event_was_empty after ev was read.  parse_tag tests the field
\* before its loop; the field belongs to the Parser and is kept by its reads.
LastEventWasEmpty(ev) == ev.type = "Empty"

\* what the ghost keeps of a token: its kind, its name, its text and the
\* attributes of a <property>
Token(ev) ==
    Some([ type |-> ev.type, name |-> ev.name, text |-> ev.text,
           attrs |-> IF ev.name = "property" /\ ev.type \in {"Start", "Empty"}
                     THEN Some(ev.attrs) ELSE None ])

\* the elements the ghost keeps track of
Tracked == {"template", "object", "frame"}

\* the elements whose parse_tag loop collects objects or frames
Containers == {"objectgroup", "animation", "template"}

\* the loop a call returns to: that of a container, or that of one of its
\* children
Loop(close) == IF close \in Containers THEN "items" ELSE "item"

\* parser.read_event() returns ev: the reader moves past one token
Read(ev) ==
    /\ ev.type # "Eof" => ~atEof /\ nread < MaxTokens
    /\ nread' = nread + 1
    /\ atEof' = (ev.type = "Eof")
    /\ last_event_was_empty' = LastEventWasEmpty(ev)
    /\ token' = Token(ev)
    /\ elements' = IF ev.type \in {"Start", "Empty"} /\ ev.name \in Tracked
                   THEN Append(elements, [name |-> ev.name, at |-> nread + 1])
                   ELSE elements
    /\ docOpen' = CASE ev.type = "Start" -> Append(docOpen, ev.name)
                    [] ev.type = "End"   -> SubSeq(docOpen, 1, Len(docOpen) - 1)
                    [] OTHER             -> docOpen

-----------------------------------------------------------------------------
(* parse_data_line.                                                        *)

\* parse_data_line returns res to its caller.  Every caller up to the entry
\* point hands an error on with `?`; with no caller in the model the return
\* ends the run.
ReturnData(res) ==
    /\ ret' = res
    /\ IF IsErr(res) \/ stack = <<>>
       THEN pc' = "done" /\ stack' = <<>> /\ result' = res
       ELSE pc' = "tag" /\ UNCHANGED <<stack, result>>

Base64Compressions ==
    {None, Some("zlib"), Some("gzip")} \cup (IF zstd THEN {Some("zstd")} ELSE {})

\* the match without its last arm: every other pair is read as csv
DataArmNoDefault(e, c) ==
    IF e = Some("base64") /\ c \in Base64Compressions THEN "b64" ELSE "csv"

\* match (encoding, compression): the arm taken
DataArm(e, c) ==
    IF e = Some("csv") /\ c = None THEN "csv"
    ELSE IF e = Some("base64") /\ c \in Base64Compressions THEN "b64"
    ELSE "invalid"

\* parse_data_line up to its first read
ParseDataLine ==
    /\ pc = "data"
    /\ IF DataArm(encoding, compression) = "invalid"
       THEN /\ ReturnData(Err(InvalidEncodingFormat(encoding, compression)))
            /\ UNCHANGED skipped
       ELSE /\ pc' = DataArm(encoding, compression)
            /\ skipped' = 0
            /\ UNCHANGED <<stack, result, ret>>
    /\ UNCHANGED <<gidVars, docVars, zstd, encoding, compression, payload, lookups,
                   cacheVars, propVars, itemVars>>

\* the `_ => {}` arm taken for the closing tag: the scan ends with no cells
SkipTokenEndsScan ==
    /\ skipped < MaxJunk
    /\ skipped' = skipped + 1
    /\ ReturnData(Ok(<<>>))
    /\ UNCHANGED <<payload, lookups>>

\* the `_ => {}` arm of the two text scans
SkipToken ==
    /\ skipped < MaxJunk
    /\ skipped' = skipped + 1
    /\ UNCHANGED <<ctlVars, ret, payload, lookups>>

\* one turn of the loop of decode_csv
DecodeCsv ==
    /\ pc = "csv"
    /\ \E ev \in StructuralEvents \cup PayloadTexts(encoding, compression) :
        /\ Read(ev)
        /\ CASE ev.type = "Text" ->
                  /\ ReturnData(decode_csv_text(ev.text, tilesets))
                  /\ payload' = [end |-> "text", text |-> ev.text, cells |-> ev.cells]
                  /\ lookups' = TableLookups(CsvRaws(ev.text), tilesets)
                  /\ UNCHANGED skipped
             [] ev.type = "End" /\ ev.name = "data" ->
                  /\ ReturnData(Ok(<<>>))
                  /\ payload' = [end |-> "close", text |-> <<>>, cells |-> None]
                  /\ UNCHANGED <<skipped, lookups>>
             [] ev.type = "Eof" ->
                  /\ ReturnData(Err(PrematureEnd))
                  /\ payload' = [end |-> "eof", text |-> <<>>, cells |-> None]
                  /\ UNCHANGED <<skipped, lookups>>
             [] ev.type = "Err" ->
                  /\ ReturnData(Err(XmlDecodingError))
                  /\ payload' = [end |-> "error", text |-> <<>>, cells |-> None]
                  /\ UNCHANGED <<skipped, lookups>>
             [] OTHER -> SkipToken
    /\ UNCHANGED <<gidVars, zstd, encoding, compression, cacheVars, propVars, itemVars>>

\* what the arm of parse_data_line makes of the result of parse_base64:
\* .and_then(process_decoder) for a compression, then .map(convert_to_tiles)
Base64Tiles(b64, lenient) ==
    LET bytes == Decompressed(b64, compression, lenient) IN
    /\ ReturnData(IF IsOk(bytes) THEN Ok(convert_to_tiles(bytes.val, tilesets))
                  ELSE bytes)
    /\ lookups' = IF IsOk(bytes)
                  THEN TableLookups(ChunkValues(bytes.val), tilesets) ELSE 0

\* one turn of the loop of parse_base64; when it returns, the rest of the arm
DecodeBase64 ==
    /\ pc = "b64"
    /\ \E ev \in StructuralEvents \cup PayloadTexts(encoding, compression),
          lenient \in BOOLEAN :
        /\ Read(ev)
        /\ CASE ev.type = "Text" ->
                  /\ Base64Tiles(parse_base64_text(ev.text), lenient)
                  /\ payload' = [end |-> "text", text |-> ev.text, cells |-> ev.cells]
                  /\ UNCHANGED skipped
             [] ev.type = "End" /\ ev.name = "data" ->
                  /\ Base64Tiles(Ok(<<>>), lenient)
                  /\ payload' = [end |-> "close", text |-> <<>>, cells |-> None]
                  /\ UNCHANGED skipped
             [] ev.type = "Eof" ->
                  /\ ReturnData(Err(PrematureEnd))
                  /\ payload' = [end |-> "eof", text |-> <<>>, cells |-> None]
                  /\ UNCHANGED <<skipped, lookups>>
             [] ev.type = "Err" ->
                  /\ ReturnData(Err(XmlDecodingError))
                  /\ payload' = [end |-> "error", text |-> <<>>, cells |-> None]
                  /\ UNCHANGED <<skipped, lookups>>
             [] OTHER -> SkipToken
    /\ UNCHANGED <<gidVars, zstd, encoding, compression, cacheVars, propVars, itemVars>>

\* the tables the payloads are decoded against
DataTables == {<<>>, <<1>>, <<3>>, <<1, 3>>, <<3, 1>>}

\* parse_data_line is entered right after the <data> start tag was read
DataInit ==
    /\ CacheIdle
    /\ PropIdle
    /\ ItemIdle
    /\ declared \in DataTables
    /\ tilesets = [i \in 1..Len(declared) |-> MapTilesetGid(declared[i])]
    /\ lookup = NoLookup
    /\ docOpen = <<"map", "layer", "data">>
    /\ nread = 0
    /\ atEof = FALSE
    /\ elements = <<>>
    /\ last_event_was_empty = FALSE
    /\ pc = "data"
    /\ stack = <<>>
    /\ result = Pending
    /\ zstd \in BOOLEAN
    /\ encoding \in Encodings
    /\ compression \in Compressions
    /\ skipped = 0
    /\ ret = Pending
    /\ payload = NoPayload
    /\ lookups = 0

DataNext ==
    \/ ParseDataLine
    \/ DecodeCsv
    \/ DecodeBase64

SpecData == DataInit /\ [][DataNext]_vars

-----------------------------------------------------------------------------
(* A document load: parse_map finds the root, Map::parse_xml and the layer *)
(* parsers walk the children with parse_tag, and a <data> child is handed  *)
(* to parse_data_line.                                                     *)

\* the white space and the tags between two elements
TagEvents == StructuralEvents \cup {Blank}

\* <data encoding=e compression=c/>
EmptyData(e, c) ==
    [Event("Empty", "data") EXCEPT !.encoding = e, !.compression = c]

\* the tokens that may follow inside an element with child-tag dispatch
DispatchEvents ==
    TagEvents \cup (IF "data" \in Children(Innermost)
                    THEN {EmptyData(e, c) : e \in Encodings, c \in Compressions}
                    ELSE {})

\* the child tags each parse_tag call of the load has a branch for
Handlers(close) ==
    CASE close = "map"   -> {"layer"}
      [] close = "layer" -> {"data"}
      [] close = "properties"  -> {"property"}
      [] close = "objectgroup" -> {"object", "properties"}
      [] close = "object"      -> {"properties"}
      [] close = "animation"   -> {"frame"}
      [] close = "template"    -> {"object", "tileset"}
      [] OTHER           -> {}

\* the load returns res
Return(res) ==
    /\ pc' = "done"
    /\ stack' = <<>>
    /\ result' = res

\* the locals of a finished parse_data_line call are gone
DropData ==
    /\ encoding' = None
    /\ compression' = None
    /\ skipped' = 0
    /\ ret' = Pending
    /\ payload' = NoPayload
    /\ lookups' = 0

\* one turn of the loop of parse_map
RootSearch ==
    /\ pc = "root"
    /\ \E ev \in TagEvents :
        /\ Read(ev)
        /\ CASE ev.type = "Err" -> Return(Err(XmlDecodingError))
             [] ev.type = "Start" /\ ev.name = "map" ->
                  /\ pc' = "tag"
                  /\ stack' = <<"map">>
                  /\ UNCHANGED result
             [] ev.type = "Eof" -> Return(Err(PrematureEnd))
             [] OTHER -> UNCHANGED ctlVars
    /\ UNCHANGED <<gidVars, dataVars, cacheVars, propVars, itemVars>>

\* @match_next with Event::Eof taken for the closing tag
MatchNextEofBreaks(ev, close) ==
    IF ev.type \in {"Start", "Empty"}
    THEN (IF ev.name \in Handlers(close) THEN "body" ELSE "nobody")
    ELSE IF ev.type = "End" /\ ev.name = close THEN "break"
    ELSE IF ev.type = "Eof" THEN "break"
    ELSE "ignore"

\* parse_tag!(@match_next next, close, {...}): the arm taken
MatchNext(ev, close) ==
    IF ev.type \in {"Start", "Empty"}
    THEN (IF ev.name \in Handlers(close) THEN "body" ELSE "nobody")
    ELSE IF ev.type = "End" /\ ev.name = close THEN "break"
    ELSE IF ev.type = "Eof" THEN "eof"
    ELSE "ignore"

\* one turn of the loop of parse_tag for the innermost call in progress
ParseTag ==
    /\ pc = "tag"
    /\ \E ev \in DispatchEvents :
        LET close == stack[Len(stack)]
            arm == MatchNext(ev, close)
        IN
        /\ Read(ev)
        /\ CASE ev.type = "Err" -> Return(Err(XmlDecodingError)) /\ DropData
             [] ev.type # "Err" /\ arm = "body" /\ ev.name = "data" ->
                  \* the body reads the two attributes and calls parse_data_line
                  /\ pc' = "data"
                  /\ encoding' = ev.encoding
                  /\ compression' = ev.compression
                  /\ skipped' = 0
                  /\ ret' = Pending
                  /\ payload' = NoPayload
                  /\ lookups' = 0
                  /\ UNCHANGED <<stack, result>>
             [] ev.type # "Err" /\ arm = "body" /\ ev.name # "data" ->
                  \* the body runs parse_tag for the child: no turn of its
                  \* loop is taken when last_event_was_empty
                  /\ pc' = "tag"
                  /\ stack' = IF last_event_was_empty' THEN stack
                              ELSE Append(stack, ev.name)
                  /\ UNCHANGED result
                  /\ DropData
             [] ev.type # "Err" /\ arm = "break" ->
                  /\ IF Len(stack) = 1
                     THEN Return(Ok(<<close>>))
                     ELSE /\ pc' = "tag"
                          /\ stack' = SubSeq(stack, 1, Len(stack) - 1)
                          /\ UNCHANGED result
                  /\ DropData
             [] ev.type # "Err" /\ arm = "eof" ->
                  Return(Err(PrematureEnd)) /\ DropData
             [] OTHER -> UNCHANGED ctlVars /\ DropData
    /\ UNCHANGED <<gidVars, zstd, cacheVars, propVars, itemVars>>

\* a load of a document with tilesets at first_gid 1 and 3
LoadInit ==
    /\ CacheIdle
    /\ PropIdle
    /\ ItemIdle
    /\ declared = <<1, 3>>
    /\ tilesets = [i \in 1..Len(declared) |-> MapTilesetGid(declared[i])]
    /\ lookup = NoLookup
    /\ DocIdle
    /\ pc = "root"
    /\ stack = <<>>
    /\ result = Pending
    /\ zstd \in BOOLEAN
    /\ encoding = None
    /\ compression = None
    /\ skipped = 0
    /\ ret = Pending
    /\ payload = NoPayload
    /\ lookups = 0

LoadNext ==
    \/ RootSearch
    \/ ParseTag
    \/ ParseDataLine
    \/ DecodeCsv
    \/ DecodeBase64

SpecLoad == LoadInit /\ [][LoadNext]_vars

-----------------------------------------------------------------------------
(* A session of loads that share one ResourceCache.  A load is a call of   *)
(* parse_tileset, or an object that names a template; a template document  *)
(* holds <tileset> and <object> children, which may name further external  *)
(* tilesets and templates.                                                 *)

TilesetPaths == {"a.tsx", "b.tsx"}

TemplatePaths == {"t.tx", "u.tx"}

\* the children of a <template> that parse_external_template has a branch for
TemplateChildren ==
    {[tag |-> "tileset", source |-> Some(p)] : p \in TilesetPaths}
    \cup {[tag |-> "tileset", source |-> None]}
    \cup {[tag |-> "object", source |-> Some(t)] : t \in TemplatePaths}
    \cup {[tag |-> "object", source |-> None]}

\* what the reader finds at a tileset path: no file, a document cut short,
\* a tileset
TilesetDocs == {"missing", "truncated", "tileset"}

\* the <tileset> children a template document starts with
TilesetPrefixes ==
    UNION { [1..n -> {c \in TemplateChildren :
                        c.tag = "tileset" /\ c.source # Some("b.tsx")}] :
            n \in 0..(MaxChildren - 1) }

\* the <object> child a template document ends with, if it has one
ObjectTails == {<<>>} \cup {<<c>> : c \in {d \in TemplateChildren : d.tag = "object"}}

\* a template document: what the search for its root finds, the children
\* of <template> that have a branch, and whether </template> is there
TemplateDoc(root, children, closed) ==
    [root |-> root, children |-> children, closed |-> closed]

\* what the reader finds at a template path
TemplateDocs ==
    {TemplateDoc(r, <<>>, FALSE) : r \in {"missing", "error", "eof"}}
    \cup {TemplateDoc("template", pre \o tail, closed) :
             pre \in TilesetPrefixes, tail \in ObjectTails, closed \in BOOLEAN}

\* the template documents without a tileset
SmallTemplateDocs == {TemplateDoc("template", tail, TRUE) : tail \in ObjectTails}

\* a call of parse_tileset in progress
TilesetFrame(p) ==
    [ kind |-> "tileset", path |-> p, root |-> FALSE, n |-> 0,
      object |-> FALSE, tileset |-> None, tileset_gid |-> <<>> ]

\* a call of parse_template in progress, with the locals of
\* parse_external_template
TemplateFrame(t) ==
    [ kind |-> "template", path |-> t, root |-> FALSE, n |-> 0,
      object |-> FALSE, tileset |-> None, tileset_gid |-> <<>> ]

Top == frames[Len(frames)]

Callers == SubSeq(frames, 1, Len(frames) - 1)

\* the variables a session of loads leaves alone
NoParse == UNCHANGED <<gidVars, docVars, ctlVars, dataVars, propVars, itemVars>>

\* an error leaves every routine in progress through `?`
Fail(e) ==
    /\ frames' = <<>>
    /\ out' = Err(e)

\* the "tileset" branch goes on with the tileset h: lines 105-110 of
\* template.rs
WithTileset(fr, h) ==
    [fr EXCEPT !.tileset = Some(h),
               !.tileset_gid = Append(@, h),
               !.n = @ + 1]

\* the "object" branch goes on with the object it was given: lines 78-89
WithObject(fr) == [fr EXCEPT !.object = TRUE, !.n = @ + 1]

\* read_from.read_from(path), the first statement of parse_tileset and of
\* parse_template
ReadFrom(path) == reads' = [reads EXCEPT ![path] = @ + 1]

\* parse_tileset(p, read_from, cache), called by the user of the crate
LoadTileset(p) ==
    /\ frames = <<>>
    /\ loads < MaxLoads
    /\ loads' = loads + 1
    /\ ReadFrom(p)
    /\ IF docs[p] = "missing"
       THEN Fail(ResourceLoadingError(p))
       ELSE frames' = <<TilesetFrame(p)>> /\ out' = Pending
    /\ UNCHANGED <<cache, docs, served, made>>
    /\ NoParse

\* ObjectData::new for an object with a template attribute: the template
\* comes from the cache, or from parse_template and then goes into the cache
RequestTemplate(t) ==
    IF cache.templates[t].some
    THEN /\ served' = served \cup {<<t, cache.templates[t].val>>}
         /\ frames' = IF frames = <<>> THEN frames
                      ELSE Append(Callers, WithObject(Top))
         /\ out' = IF frames = <<>> THEN Ok(cache.templates[t].val) ELSE out
         /\ UNCHANGED reads
    ELSE /\ ReadFrom(t)
         /\ frames' = Append(frames, TemplateFrame(t))
         /\ out' = Pending
         /\ UNCHANGED served

\* an object of a map names the template t
LoadTemplate(t) ==
    /\ frames = <<>>
    /\ loads < MaxLoads
    /\ loads' = loads + 1
    /\ RequestTemplate(t)
    /\ UNCHANGED <<cache, docs, made>>
    /\ NoParse

\* parse_template: the file is opened and searched for <template>
TemplateRoot ==
    /\ frames # <<>>
    /\ Top.kind = "template"
    /\ ~Top.root
    /\ LET found == docs[Top.path].root IN
        CASE found = "missing" -> Fail(ResourceLoadingError(Top.path))
          [] found = "error"   -> Fail(XmlDecodingError)
          [] found = "eof"     -> Fail(PrematureEnd)
          [] OTHER -> /\ frames' = Append(Callers, [Top EXCEPT !.root = TRUE])
                      /\ UNCHANGED out
    /\ UNCHANGED <<cache, reads, docs, served, made, loads>>
    /\ NoParse

\* the "tileset" branch for an external reference: the cached tileset, or
\* parse_tileset and then insert_tileset
RequestTileset(p) ==
    IF cache.tilesets[p].some
    THEN /\ served' = served \cup {<<p, cache.tilesets[p].val>>}
         /\ frames' = Append(Callers, WithTileset(Top, cache.tilesets[p].val))
         /\ UNCHANGED <<reads, out>>
    ELSE /\ ReadFrom(p)
         /\ IF docs[p] = "missing"
            THEN Fail(ResourceLoadingError(p))
            ELSE frames' = Append(frames, TilesetFrame(p)) /\ UNCHANGED out
         /\ UNCHANGED served

\* parse_tag hands a child of <template> to its branch
TemplateChild ==
    /\ frames # <<>>
    /\ Top.kind = "template"
    /\ Top.root
    /\ Top.n < Len(docs[Top.path].children)
    /\ LET child == docs[Top.path].children[Top.n + 1] IN
        CASE child.tag = "tileset" /\ child.source.some ->
                /\ RequestTileset(child.source.val)
                /\ UNCHANGED made
          [] child.tag = "tileset" /\ ~child.source.some ->
                /\ made' = made + 1
                /\ frames' = Append(Callers, WithTileset(Top, made + 1))
                /\ UNCHANGED <<reads, served, out>>
          [] child.tag = "object" /\ child.source.some ->
                /\ cache.templates[child.source.val].some \/ Len(frames) < MaxDepth
                /\ RequestTemplate(child.source.val)
                /\ UNCHANGED made
          [] OTHER ->
                /\ frames' = Append(Callers, WithObject(Top))
                /\ UNCHANGED <<reads, served, made, out>>
    /\ UNCHANGED <<cache, docs, loads>>
    /\ NoParse

\* the template t is handed to ObjectData::new, which puts it in the cache
ReturnTemplate(t, h) ==
    /\ cache' = [cache EXCEPT !.templates[t] = Some(h)]
    /\ served' = served \cup {<<t, h>>}
    /\ IF Callers = <<>>
       THEN frames' = <<>> /\ out' = Ok(h)
       ELSE /\ frames' = Append(SubSeq(Callers, 1, Len(Callers) - 1),
                                WithObject(Callers[Len(Callers)]))
            /\ UNCHANGED out

\* parse_tag reads </template>, or the end of the input
TemplateEnd ==
    /\ frames # <<>>
    /\ Top.kind = "template"
    /\ Top.root
    /\ Top.n = Len(docs[Top.path].children)
    /\ LET closed == docs[Top.path].closed IN
        IF ~closed THEN Fail(PrematureEnd) /\ UNCHANGED <<cache, served, made>>
        ELSE IF ~Top.object
        THEN Fail(TemplateHasNoObject) /\ UNCHANGED <<cache, served, made>>
        ELSE /\ made' = made + 1
             /\ ReturnTemplate(Top.path, made + 1)
    /\ UNCHANGED <<reads, docs, loads>>
    /\ NoParse

\* parse_tileset returns, and the tileset of a document cut short is put in
\* the cache like a parsed one
TilesetParsedKeepsPartial ==
    /\ frames # <<>>
    /\ Top.kind = "tileset"
    /\ made' = made + 1
    /\ served' = served \cup {<<Top.path, made + 1>>}
    /\ IF Callers = <<>>
       THEN /\ frames' = <<>>
            /\ out' = IF docs[Top.path] = "truncated" THEN Err(PrematureEnd)
                      ELSE Ok(made + 1)
            /\ UNCHANGED cache
       ELSE /\ cache' = [cache EXCEPT !.tilesets[Top.path] = Some(made + 1)]
            /\ IF docs[Top.path] = "truncated"
               THEN Fail(PrematureEnd)
               ELSE /\ frames' = Append(SubSeq(Callers, 1, Len(Callers) - 1),
                                        WithTileset(Callers[Len(Callers)], made + 1))
                    /\ UNCHANGED out
    /\ UNCHANGED <<reads, docs, loads>>
    /\ NoParse

\* parse_tileset returns
TilesetParsed ==
    /\ frames # <<>>
    /\ Top.kind = "tileset"
    /\ IF docs[Top.path] = "truncated"
       THEN Fail(PrematureEnd) /\ UNCHANGED <<cache, served, made>>
       ELSE /\ made' = made + 1
            /\ served' = served \cup {<<Top.path, made + 1>>}
            /\ IF Callers = <<>>
               THEN \* to the user of the crate
                    /\ frames' = <<>>
                    /\ out' = Ok(made + 1)
                    /\ UNCHANGED cache
               ELSE \* to the "tileset" branch, which puts it in the cache
                    /\ cache' = [cache EXCEPT !.tilesets[Top.path] = Some(made + 1)]
                    /\ frames' = Append(SubSeq(Callers, 1, Len(Callers) - 1),
                                        WithTileset(Callers[Len(Callers)], made + 1))
                    /\ UNCHANGED out
    /\ UNCHANGED <<reads, docs, loads>>
    /\ NoParse

\* a session starts with an empty cache
CacheInit ==
    /\ cache = [ tilesets |-> [p \in TilesetPaths |-> None],
                 templates |-> [t \in TemplatePaths |-> None] ]
    /\ reads = [p \in TilesetPaths \cup TemplatePaths |-> 0]
    /\ frames = <<>>
    /\ \E ts \in [TilesetPaths -> TilesetDocs], t \in TemplateDocs, u \in SmallTemplateDocs :
          docs = [p \in TilesetPaths \cup TemplatePaths |->
                    IF p \in TilesetPaths THEN ts[p]
                    ELSE IF p = "t.tx" THEN t ELSE u]
    /\ served = {}
    /\ made = 0
    /\ loads = 0
    /\ out = Pending
    /\ tilesets = <<>>
    /\ declared = <<>>
    /\ lookup = NoLookup
    /\ DocIdle
    /\ CtlIdle
    /\ DataIdle
    /\ PropIdle
    /\ ItemIdle

CacheNext ==
    \/ \E p \in TilesetPaths : LoadTileset(p)
    \/ \E t \in TemplatePaths : LoadTemplate(t)
    \/ TemplateRoot
    \/ TemplateChild
    \/ TemplateEnd
    \/ TilesetParsed

SpecCache == CacheInit /\ [][CacheNext]_vars

-----------------------------------------------------------------------------
(* PropertyValue::new and Color::from_str on the texts of a document.      *)

\* the values of the type attribute of a <property>
PropertyTypes ==
    {"bool", "float", "int", "color", "string", "object", "file", "class",
     "colour", ""}

\* two characters of a color text
ColorPairs ==
    { <<"A", "1">>, <<"B", "2">>, <<"C", "3">>, <<"1", "1">>, <<"c", "3">>,
      <<"+", "1">>, <<"g", "0">> }

RECURSIVE Concat(_)
Concat(ts) == IF ts = <<>> THEN <<>> ELSE Head(ts) \o Concat(Tail(ts))

\* the color texts: an optional '#', then up to MaxPairs pairs
ColorTexts ==
    { h \o Concat(ps) : h \in {<<>>, <<"#">>},
                        ps \in UNION {[1..n -> ColorPairs] : n \in 0..MaxPairs} }

\* other texts: one character, an odd number of digits, two '#', a text of
\* six bytes that is not ASCII, white space, and the texts of the other types
OtherTexts ==
    { <<"1">>, <<"#", "1">>, <<"#", "1", "2">>, <<"#", "A", "1", "B", "2", "C">>,
      <<"#", "#", "A", "1", "B", "2", "C", "3">>,
      <<NonAscii, "A", "1", "B", "2">>, <<"A", "1", "B", "2", "C", "3", " ">>,
      Str("true"), Str("false"), <<"T", "r", "u", "e">>, Str("nan"),
      <<"-", "1">>, <<"1", ".", "5">>, <<".">>, <<"1", "e", "2">>, <<"-">>,
      <<"x">>, <<"\n">>, <<"a", ".", "p", "n", "g">>,
      <<"2", "1", "4", "7", "4", "8", "3", "6", "4", "8">>,
      <<"-", "2", "1", "4", "7", "4", "8", "3", "6", "4", "8">>,
      <<"4", "2", "9", "4", "9", "6", "7", "2", "9", "6">> }

ValueTexts == ColorTexts \cup OtherTexts

NoCall == [call |-> "", res |-> Pending]

\* PropertyValue::new(property_type, value), called by parse_properties_inner
NewPropertyValue ==
    /\ converted = NoCall
    /\ property_type # ""
    /\ converted' = [call |-> "new", res |-> PropertyValue_new(property_type, value)]
    /\ UNCHANGED <<gidVars, docVars, ctlVars, dataVars, cacheVars, itemVars,
                   props, prop, seen, property_type, value>>

\* value.parse::<Color>() of a color attribute (layers/object.rs 35)
ParseColor ==
    /\ converted = NoCall
    /\ property_type = ""
    /\ converted' = [call |-> "from_str",
                     res |-> IF from_str(value).some THEN Ok(from_str(value).val)
                             ELSE Err("()")]
    /\ UNCHANGED <<gidVars, docVars, ctlVars, dataVars, cacheVars, itemVars,
                   props, prop, seen, property_type, value>>

ValueInit ==
    /\ CacheIdle
    /\ ItemIdle
    /\ tilesets = <<>>
    /\ declared = <<>>
    /\ lookup = NoLookup
    /\ DocIdle
    /\ CtlIdle
    /\ DataIdle
    /\ props = <<>>
    /\ prop = None
    /\ token = None
    /\ seen = 0
    /\ property_type \in PropertyTypes
    /\ value \in IF property_type \in {"color", ""} THEN ValueTexts ELSE OtherTexts
    /\ converted = NoCall

ValueNext ==
    \/ NewPropertyValue
    \/ ParseColor

SpecValue == ValueInit /\ [][ValueNext]_vars

-----------------------------------------------------------------------------
(* parse_properties over the tokens of one <properties> block.  Every      *)
(* parse_properties call in progress has its HashMap p in props; a nested  *)
(* call was made by the parse_properties_inner of a class property, whose  *)
(* locals k and p_t wait in owner.                                         *)

PropertyNames == {"a", "b"}

\* the attributes of a <property>: a class property has a propertytype at
\* most, every other one a value at most
PropertyAttrs ==
    { [name |-> None, type |-> None, value |-> None, propertytype |-> None] }
    \cup
    { [name |-> Some(k), type |-> tv[1], value |-> tv[2], propertytype |-> None] :
        k \in PropertyNames,
        tv \in { <<None, None>>, <<None, Some(<<"5">>)>>,
                 <<Some("int"), None>>, <<Some("int"), Some(<<"5">>)>>,
                 <<Some("int"), Some(<<"x">>)>> } }
    \cup
    { [name |-> Some(k), type |-> Some("class"), value |-> None,
       propertytype |-> pt] :
        k \in PropertyNames, pt \in {None, Some("T")} }

\* the attributes of the properties of an object layer and of its objects
ItemPropertyAttrs ==
    { [name |-> Some("a"), type |-> Some("class"), value |-> None,
       propertytype |-> None],
      [name |-> Some("a"), type |-> None, value |-> Some(<<"5">>),
       propertytype |-> None],
      [name |-> Some("a"), type |-> None, value |-> None,
       propertytype |-> None] }

\* <property ...> and <property .../>
PropertyEvent(form, attrs) ==
    [ type |-> form, name |-> "property", encoding |-> None, compression |-> None,
      text |-> <<>>, cells |-> None, attrs |-> attrs ]

\* the text tokens of a block: white space, a value, bytes that are not UTF-8
PropertyTexts == {Blank, TextEvent(<<"5">>, None), TextEvent(<<BadUtf8>>, None)}

\* the tokens that may come next inside a block
PropertyEvents ==
    (StructuralEvents \ {Event("Start", "property"), Event("Empty", "property")})
    \cup (IF stack = <<>> THEN PropertyTexts ELSE {Blank})
    \cup (IF Innermost = "properties"
          THEN {PropertyEvent(form, attrs) :
                   form \in {"Start", "Empty"},
                   attrs \in IF stack = <<>> THEN PropertyAttrs ELSE ItemPropertyAttrs}
          ELSE {})

Frame(owner) == [p |-> {}, owner |-> owner]

\* p.insert(k, v): the entry of k is replaced
Insert(p, k, v) == {e \in p : e.k # k} \cup {[k |-> k, v |-> v]}

\* p.insert(k, v) in the innermost call in progress
InsertTop(k, v) ==
    [props EXCEPT ![Len(props)].p = Insert(@, k, v)]

unwrap_or(opt, default) == IF opt.some THEN opt.val ELSE default

\* the parse of the block returns res to the caller of parse_properties: a
\* parse_tag branch written `parse_properties(parser).await?`, or the user
ReturnProperties(res) ==
    /\ IF IsOk(res) /\ stack # <<>>
       THEN pc' = Loop(stack[Len(stack)]) /\ UNCHANGED result
       ELSE pc' = "done" /\ result' = res
    /\ props' = <<>>
    /\ prop' = None

\* parse_properties_inner goes on with the text v of its property: lines
\* 208-209
InsertValue(t, k, v) ==
    IF IsOk(PropertyValue_new(t, v))
    THEN /\ props' = InsertTop(k, PropertyValue_new(t, v).val)
         /\ pc' = "ptag"
         /\ prop' = None
         /\ UNCHANGED result
    ELSE ReturnProperties(PropertyValue_new(t, v))

\* the class value stored with the type name and the property name swapped
InsertClassSwapped(calls, pr, properties) ==
    [calls EXCEPT ![Len(calls)].p =
        Insert(@, unwrap_or(pr.p_t, ""), ClassValue(pr.k, properties))]

\* parse_properties_inner stores the class value: lines 178-185
InsertClass(calls, pr, properties) ==
    [calls EXCEPT ![Len(calls)].p =
        Insert(@, pr.k, ClassValue(unwrap_or(pr.p_t, ""), properties))]

NoProps == UNCHANGED <<gidVars, dataVars, cacheVars, itemVars, stack,
                       property_type, value, converted>>

\* parse_properties up to its first read: p = HashMap::new(), and parse_tag
\* takes no turn of its loop when last_event_was_empty
ParseProperties ==
    /\ pc = "properties"
    /\ IF last_event_was_empty
       THEN ReturnProperties(Ok({}))
       ELSE /\ pc' = "ptag"
            /\ props' = <<Frame(None)>>
            /\ UNCHANGED <<prop, result>>
    /\ UNCHANGED <<docVars, seen>>
    /\ NoProps

\* the locals of parse_properties_inner after get_attrs!: lines 159-168
Locals(ev) ==
    [ t   |-> unwrap_or(ev.attrs.type, "string"),
      v_attr |-> ev.attrs.value,
      k   |-> ev.attrs.name.val,
      p_t |-> ev.attrs.propertytype,
      form |-> ev.type ]

\* has_properties_tag_next with the comment arm left out
LookaheadNoComments(ev) ==
    IF ev.type = "Err" THEN "false"
    ELSE IF ev.type = "Start" /\ ev.name = "properties" THEN "true"
    ELSE IF ev.type = "Text" /\ Trim(ev.text) = <<>> THEN "continue"
    ELSE "false"

\* has_properties_tag_next: what one turn of its loop makes of the read
Lookahead(ev) ==
    IF ev.type = "Err" THEN "false"
    ELSE IF ev.type = "Start" /\ ev.name = "properties" THEN "true"
    ELSE IF ev.type = "Text" /\ Trim(ev.text) = <<>> THEN "continue"
    ELSE IF ev.type = "Comment" THEN "continue"
    ELSE "false"

\* one turn of the loop of parse_tag in parse_properties; the body of the
\* "property" branch is parse_properties_inner up to its first read
PropertiesTag ==
    /\ pc = "ptag"
    /\ \E ev \in PropertyEvents :
        LET arm == MatchNext(ev, "properties") IN
        /\ Read(ev)
        /\ seen' = IF ev.type = "Err" THEN seen ELSE seen + 1
        /\ CASE ev.type = "Err" -> ReturnProperties(Err(XmlDecodingError))
             [] ev.type # "Err" /\ arm = "body" ->
                  IF ~ev.attrs.name.some
                  THEN ReturnProperties(
                           Err(MalformedAttributes("Missing attribute: name", "")))
                  ELSE IF Locals(ev).t = "class"
                  THEN /\ pc' = "lookahead"
                       /\ prop' = Some(Locals(ev))
                       /\ UNCHANGED <<props, result>>
                  ELSE IF Locals(ev).v_attr.some
                  THEN InsertValue(Locals(ev).t, Locals(ev).k, Locals(ev).v_attr.val)
                  ELSE /\ pc' = "value"
                       /\ prop' = Some(Locals(ev))
                       /\ UNCHANGED <<props, result>>
             [] ev.type # "Err" /\ arm = "break" ->
                  IF Len(props) = 1
                  THEN ReturnProperties(Ok(props[1].p))
                  ELSE \* back in parse_properties_inner, line 174
                       /\ props' = InsertClass(SubSeq(props, 1, Len(props) - 1),
                                               props[Len(props)].owner.val,
                                               props[Len(props)].p)
                       /\ UNCHANGED <<pc, prop, result>>
             [] ev.type # "Err" /\ arm = "eof" ->
                  ReturnProperties(Err(PrematureEnd))
             [] OTHER -> UNCHANGED <<pc, props, prop, result>>
    /\ NoProps

\* one turn of the loop of has_properties_tag_next, and what line 173 does
\* with its answer
PropertiesTagNext ==
    /\ pc = "lookahead"
    /\ \E ev \in PropertyEvents :
        /\ Read(ev)
        /\ CASE Lookahead(ev) = "continue" -> UNCHANGED <<pc, props, prop>>
             [] Lookahead(ev) = "true" ->
                  \* parse_properties(parser): parse_tag enters its loop, the
                  \* last token being a start tag
                  /\ pc' = "ptag"
                  /\ props' = Append(props, Frame(Some(prop.val)))
                  /\ prop' = None
             [] OTHER ->
                  /\ pc' = "ptag"
                  /\ props' = InsertClass(props, prop.val, {})
                  /\ prop' = None
    /\ UNCHANGED <<seen, result>>
    /\ NoProps

\* the read of parse_properties_inner for a property without a value
\* attribute: lines 190-205, and then lines 208-209
PropertyText ==
    /\ pc = "value"
    /\ \E ev \in PropertyEvents :
        /\ Read(ev)
        /\ CASE ev.type = "Text" ->
                  IF IsUtf8(ev.text)
                  THEN InsertValue(prop.val.t, prop.val.k, ev.text)
                  ELSE ReturnProperties(Err(XmlDecodingError))
             [] ev.type = "Err" -> ReturnProperties(Err(XmlDecodingError))
             [] OTHER -> ReturnProperties(
                             Err(MalformedAttributes("is missing a value", prop.val.k)))
    /\ UNCHANGED seen
    /\ NoProps

\* parse_properties is called after <properties> or <properties/> was read
PropsInit ==
    /\ CacheIdle
    /\ ItemIdle
    /\ tilesets = <<>>
    /\ declared = <<>>
    /\ lookup = NoLookup
    /\ DataIdle
    /\ last_event_was_empty \in BOOLEAN
    /\ docOpen = IF last_event_was_empty THEN <<"object">>
                 ELSE <<"object", "properties">>
    /\ nread = 2
    /\ atEof = FALSE
    /\ elements = <<>>
    /\ pc = "properties"
    /\ stack = <<>>
    /\ result = Pending
    /\ props = <<>>
    /\ prop = None
    /\ token = None
    /\ seen = 0
    /\ property_type = ""
    /\ value = <<>>
    /\ converted = NoCall

PropsNext ==
    \/ ParseProperties
    \/ PropertiesTag
    \/ PropertiesTagNext
    \/ PropertyText

SpecProps == PropsInit /\ [][PropsNext]_vars

-----------------------------------------------------------------------------
(***************************************************************************)
(* The lists parse_tag collects: the objects of an <objectgroup>, the      *)
(* frames of an <animation>, the object of a <template>.  An entry is      *)
(* named by the position of its start tag among the tokens read.           *)
(***************************************************************************)

\* the tokens that may come next outside a <properties> block
ItemEvents ==
    (StructuralEvents \ {Event("Start", "property"), Event("Empty", "property"),
                         Event("Start", "map"), Event("Empty", "map")})
    \cup {Blank}

\* the tokens that may come next in a template document
TemplateEvents ==
    ItemEvents \cup (IF docOpen = <<>>
                     THEN {Event("Start", "template"), Event("Empty", "template")}
                     ELSE {})

\* objects.push(..), animation.push(..), object = Some(..)
Store(close, id) ==
    IF close = "template"
    THEN object' = Some(id) /\ UNCHANGED objects
    ELSE objects' = Append(objects, id) /\ UNCHANGED object

\* what the routine of the container returns after its parse_tag
Finish(close) ==
    IF close = "template"
    THEN (IF object.some THEN Ok([object |-> object.val])
          ELSE Err(TemplateHasNoObject))
    ELSE Ok(objects)

NoItems == UNCHANGED <<gidVars, dataVars, cacheVars, propVars>>

\* parse_template: the search for the start tag of <template>
TemplateSearch ==
    /\ pc = "troot"
    /\ \E ev \in TemplateEvents :
        /\ Read(ev)
        /\ CASE ev.type = "Err" -> Return(Err(XmlDecodingError))
             [] ev.type = "Start" /\ ev.name = "template" ->
                  /\ pc' = "items"
                  /\ stack' = <<"template">>
                  /\ UNCHANGED result
             [] ev.type = "Eof" -> Return(Err(PrematureEnd))
             [] OTHER -> UNCHANGED ctlVars
    /\ UNCHANGED itemVars
    /\ NoItems

\* ObjectLayerData::new and parse_animation up to the first read: parse_tag
\* takes no turn of its loop when last_event_was_empty
ItemsEnter ==
    /\ pc = "enter"
    /\ IF last_event_was_empty
       THEN Return(Finish(stack[1]))
       ELSE pc' = "items" /\ UNCHANGED <<stack, result>>
    /\ UNCHANGED <<docVars, itemVars>>
    /\ NoItems

\* one turn of the loop of parse_tag for a container; ok tells whether the
\* attributes of the child are well formed
ItemsTag ==
    /\ pc = "items"
    /\ \E ev \in ItemEvents :
        LET close == stack[1]
            arm == MatchNext(ev, close)
        IN
        \E ok \in IF arm = "body" /\ ev.name # "properties" THEN BOOLEAN ELSE {TRUE} :
        /\ Read(ev)
        /\ CASE ev.type = "Err" ->
                  Return(Err(XmlDecodingError)) /\ UNCHANGED itemVars
             [] ev.type # "Err" /\ arm = "body" /\ ev.name = "properties" ->
                  /\ pc' = "properties"
                  /\ UNCHANGED <<stack, result, itemVars>>
             [] ev.type # "Err" /\ arm = "body" /\ ev.name # "properties" /\ ~ok ->
                  /\ Return(Err(MalformedAttributes("Missing attribute", ev.name)))
                  /\ UNCHANGED itemVars
             [] ev.type # "Err" /\ arm = "body" /\ ev.name = "frame" /\ ok ->
                  /\ Store(close, nread + 1)
                  /\ UNCHANGED <<ctlVars, building>>
             [] ev.type # "Err" /\ arm = "body" /\ ev.name = "object" /\ ok ->
                  IF ev.type = "Empty"
                  THEN Store(close, nread + 1) /\ UNCHANGED <<ctlVars, building>>
                  ELSE /\ pc' = "item"
                       /\ stack' = Append(stack, "object")
                       /\ building' = Some(nread + 1)
                       /\ UNCHANGED <<result, objects, object>>
             [] ev.type # "Err" /\ arm = "body" /\ ev.name = "tileset" /\ ok ->
                  IF ev.type = "Empty"
                  THEN UNCHANGED <<ctlVars, itemVars>>
                  ELSE /\ pc' = "item"
                       /\ stack' = Append(stack, "tileset")
                       /\ UNCHANGED <<result, itemVars>>
             [] ev.type # "Err" /\ arm = "break" ->
                  Return(Finish(close)) /\ UNCHANGED itemVars
             [] ev.type # "Err" /\ arm = "eof" ->
                  Return(Err(PrematureEnd)) /\ UNCHANGED itemVars
             [] OTHER -> UNCHANGED <<ctlVars, itemVars>>
    /\ NoItems

\* one turn of the loop of parse_tag for the children of an <object> or of
\* a <tileset> given in start-tag form
ItemTag ==
    /\ pc = "item"
    /\ \E ev \in ItemEvents :
        LET close == stack[Len(stack)]
            arm == MatchNext(ev, close)
        IN
        /\ Read(ev)
        /\ CASE ev.type = "Err" ->
                  Return(Err(XmlDecodingError)) /\ UNCHANGED itemVars
             [] ev.type # "Err" /\ arm = "body" ->
                  /\ pc' = "properties"
                  /\ UNCHANGED <<stack, result, itemVars>>
             [] ev.type # "Err" /\ arm = "break" ->
                  /\ pc' = "items"
                  /\ stack' = SubSeq(stack, 1, Len(stack) - 1)
                  /\ UNCHANGED result
                  /\ IF close = "object"
                     THEN Store(stack[1], building.val) /\ building' = None
                     ELSE UNCHANGED itemVars
             [] ev.type # "Err" /\ arm = "eof" ->
                  Return(Err(PrematureEnd)) /\ UNCHANGED itemVars
             [] OTHER -> UNCHANGED <<ctlVars, itemVars>>
    /\ NoItems

\* the start tag of an <objectgroup> or of an <animation> was read, or a
\* template document was opened
ItemsInit ==
    /\ CacheIdle
    /\ PropIdle
    /\ ItemIdle
    /\ DataIdle
    /\ tilesets = <<>>
    /\ declared = <<>>
    /\ lookup = NoLookup
    /\ atEof = FALSE
    /\ elements = <<>>
    /\ result = Pending
    /\ \E container \in Containers :
        IF container = "template"
        THEN /\ last_event_was_empty = FALSE
             /\ docOpen = <<>>
             /\ nread = 0
             /\ pc = "troot"
             /\ stack = <<>>
        ELSE /\ last_event_was_empty \in BOOLEAN
             /\ docOpen = IF last_event_was_empty THEN <<>> ELSE <<container>>
             /\ nread = 0
             /\ pc = "enter"
             /\ stack = <<container>>

ItemsNext ==
    \/ TemplateSearch
    \/ ItemsEnter
    \/ ItemsTag
    \/ ItemTag
    \/ ParseProperties
    \/ PropertiesTag
    \/ PropertiesTagNext
    \/ PropertyText

SpecItems == ItemsInit /\ [][ItemsNext]_vars

-----------------------------------------------------------------------------
(* C1 *)

\* the 1-based positions of the entries that qualify for g
Qualifying(ts, g) == {i \in 1..Len(ts) : ts[i].first_gid <= g}

NonDecreasing(ts) ==
    \A i, j \in 1..Len(ts) : i <= j => ts[i].first_gid <= ts[j].first_gid

\* C1 as stated: for every table built in declaration order and every
\* non-zero identifier g, the resolver returns the entry with the greatest
\* first_gid that is <= g.
C1_GreatestFirstGid ==
    lookup.done =>
        LET Q == Qualifying(tilesets, lookup.gid) IN
        Q # {} =>
            /\ lookup.res.some
            /\ \A i \in Q : tilesets[i].first_gid <= lookup.res.val[2].first_gid

\* C1 as amended: the table is the declarations in their order (never
\* re-sorted); the resolver returns the last entry in table order whose
\* first_gid is <= g, together with its index, and nothing when no entry
\* qualifies; when the table is non-decreasing in first_gid that entry is the
\* one with the greatest first_gid <= g.
C1_LastEntryInTableOrder ==
    /\ tilesets = [i \in 1..Len(declared) |-> MapTilesetGid(declared[i])]
    /\ lookup.done =>
        LET Q == Qualifying(tilesets, lookup.gid) IN
        /\ Q = {} => lookup.res = None
        /\ Q # {} =>
            /\ lookup.res = Some(<<SetMax(Q) - 1, tilesets[SetMax(Q)]>>)
            /\ NonDecreasing(tilesets) =>
                 \A i \in Q : tilesets[i].first_gid <= lookup.res.val[2].first_gid

\* a lookup in a table of two entries that both qualify and differ
C1_Witness ==
    /\ lookup.done
    /\ Len(tilesets) >= 2
    /\ lookup.res.some
    /\ lookup.res.val[1] = Len(tilesets) - 1
    /\ \E i \in Qualifying(tilesets, lookup.gid) :
         tilesets[i].first_gid < lookup.res.val[2].first_gid

-----------------------------------------------------------------------------
(* C2 *)

\* the cells the decoded text was written from
Cells == payload.cells.val

\* C2: every tile produced for a raw cell value carries the local id
\* (masked identifier - first_gid of the entry it names), which is not
\* negative; and with tilesets at first_gid 1 and 3 the csv text "1,2,0,3"
\* decodes to (tileset@1, 0), (tileset@1, 1), none, (tileset@3, 0).
C2_LocalTileId ==
    /\ (IsOk(ret) /\ payload.cells.some) =>
         \A i \in 1..Len(ret.val) :
            (i <= Len(Cells) /\ ret.val[i].some) =>
                LET tile == ret.val[i].val IN
                /\ tile.tileset_index + 1 \in 1..Len(tilesets)
                /\ tile.id = MaskedGid(Cells[i])
                               - tilesets[tile.tileset_index + 1].first_gid
                /\ tile.id >= 0
    /\ ( /\ pc = "done"
         /\ declared = <<1, 3>>
         /\ encoding = Some("csv") /\ compression = None
         /\ payload.text = <<"1", ",", "2", ",", "0", ",", "3">> ) =>
         ret = Ok(<< Some(LayerTileData(0, 0, U32(0, 0))),
                     Some(LayerTileData(0, 1, U32(0, 0))),
                     None,
                     Some(LayerTileData(1, 0, U32(0, 0))) >>)

\* the example has been decoded
C2_Witness ==
    /\ pc = "done"
    /\ declared = <<1, 3>>
    /\ payload.text = <<"1", ",", "2", ",", "0", ",", "3">>
    /\ IsOk(ret)
    /\ Len(ret.val) = 4

-----------------------------------------------------------------------------
(* C3 *)

\* C3: in every decoded payload a raw cell value of 0 gives an absent cell,
\* whatever the table, and the table is consulted for non-zero cells only.
C3_ZeroIsNoTile ==
    (IsOk(ret) /\ payload.cells.some) =>
        /\ \A i \in 1..Len(Cells) :
              Cells[i] = U32(0, 0) => (i <= Len(ret.val) /\ ret.val[i] = None)
        /\ lookups <= Cardinality({i \in 1..Len(Cells) : Cells[i] # U32(0, 0)})

\* a payload with a zero cell decoded against the empty table, and one
\* decoded against a table that holds entries
C3_Witness ==
    /\ IsOk(ret)
    /\ payload.cells.some
    /\ \E i \in 1..Len(Cells) : Cells[i] = U32(0, 0)
    /\ \E i \in 1..Len(Cells) : Cells[i] # U32(0, 0)
    /\ tilesets # <<>>
    /\ lookups = 1

\* the same against the empty table
C3_WitnessEmptyTable ==
    /\ IsOk(ret)
    /\ payload.cells.some
    /\ Cells = <<U32(0, 0)>>
    /\ tilesets = <<>>

-----------------------------------------------------------------------------
(* C4 *)

\* the cells of the payload whose identifier no table entry qualifies for
Unresolved ==
    {i \in 1..Len(Cells) :
        /\ MaskedGid(Cells[i]) # 0
        /\ Qualifying(tilesets, MaskedGid(Cells[i])) = {}}

\* C4: when a non-zero cell has an identifier below every first_gid of the
\* table (or the table is empty), the decoding returns an error and not a
\* cell sequence with an absent cell in its place.
C4_UnresolvedIsAnError ==
    (pc = "done" /\ payload.cells.some /\ Unresolved # {}) => IsErr(ret)

-----------------------------------------------------------------------------
(* C7 *)

\* C7: for csv and for every base64 variant, the decoded sequence has one
\* element per raw cell value of the payload, and its i-th element is the
\* resolution of the i-th raw value.
C7_SourceOrder ==
    (pc = "done" /\ payload.cells.some) =>
        /\ IsOk(ret)
        /\ Len(ret.val) = Len(Cells)
        /\ \A i \in 1..Len(Cells) : ret.val[i] = from_bits(Cells[i], tilesets)

\* a csv payload of two cells that resolve differently has been decoded
C7_Witness ==
    /\ pc = "done"
    /\ encoding = Some("csv")
    /\ payload.cells.some
    /\ Len(Cells) = 2
    /\ IsOk(ret)
    /\ ret.val[1] # ret.val[2]

\* the same for a compressed base64 payload
C7_WitnessBase64 ==
    /\ pc = "done"
    /\ encoding = Some("base64") /\ compression = Some("gzip")
    /\ payload.cells.some
    /\ Len(Cells) = 2
    /\ IsOk(ret)
    /\ ret.val[1] # ret.val[2]

-----------------------------------------------------------------------------
(* C8 *)

\* C8: for every supported (encoding, compression) pair, an element closed
\* without any text decodes to the empty cell sequence, not to an error.
C8_EmptyElementIsEmptySequence ==
    (pc = "done" /\ payload.end = "close") => ret = Ok(<<>>)

-----------------------------------------------------------------------------
(* C9 *)

Supported(e, c) ==
    \/ e = Some("csv") /\ c = None
    \/ e = Some("base64") /\ c \in {None, Some("zlib"), Some("gzip")}
    \/ e = Some("base64") /\ c = Some("zstd") /\ zstd

\* C9: for every pair other than (csv, none), (base64, none), (base64, zlib),
\* (base64, gzip) and, with the feature, (base64, zstd), parse_data_line
\* returns the invalid-encoding error that carries the two values it was
\* given, and has read no token.
C9_InvalidEncoding ==
    (~Supported(encoding, compression) /\ pc # "data") =>
        /\ pc = "done"
        /\ ret = Err(InvalidEncodingFormat(encoding, compression))
        /\ ret.err.encoding = encoding
        /\ ret.err.compression = compression
        /\ nread = 0

\* parse_data_line has returned for ("csv", "zlib")
C9_Witness ==
    /\ pc = "done"
    /\ encoding = Some("csv")
    /\ compression = Some("zlib")
    /\ ret = Err(InvalidEncodingFormat(Some("csv"), Some("zlib")))

-----------------------------------------------------------------------------
(* C10 *)

\* C10: once the reader has returned end-of-input to the root search, to a
\* parse_tag loop or to a payload text scan, the load has returned the
\* premature-end error with that very step and holds no result; no loop
\* takes another turn after end-of-input, and every turn of a loop reads a
\* token of the (finite) document.
C10_PrematureEnd ==
    /\ [](atEof => (pc = "done" /\ result = Err(PrematureEnd)))
    /\ [][~atEof]_vars
    /\ [][(pc \in {"root", "tag", "csv", "b64"}) => (nread' = nread + 1)]_vars

\* the input ended inside the text scan of a <data> element
C10_Witness ==
    /\ atEof
    /\ docOpen = <<"map", "layer", "data">>
    /\ payload.end = "eof"
    /\ result = Err(PrematureEnd)

\* the input ended inside <layer>, in the child-tag dispatch of parse_tag
C10_WitnessDispatch ==
    /\ atEof
    /\ docOpen = <<"map", "layer">>
    /\ payload.end = ""
    /\ result = Err(PrematureEnd)

\* the input ended before any <map> start tag
C10_WitnessRoot ==
    /\ atEof
    /\ docOpen = <<>>
    /\ nread > 1
    /\ result = Err(PrematureEnd)

-----------------------------------------------------------------------------
(* C5 *)

\* the handles handed out for a path
Handles(path) == {pair[2] : pair \in {q \in served : q[1] = path}}

\* C5: in a session of loads through one cache, the reader is invoked at
\* most once for the path of a tileset file that parses, and every request
\* for that path is given one and the same handle.
C5_ReaderOncePerTileset ==
    \A p \in TilesetPaths :
        docs[p] = "tileset" =>
            /\ reads[p] <= 1
            /\ Cardinality(Handles(p)) <= 1

-----------------------------------------------------------------------------
(* C6 *)

CacheEntry(path) ==
    IF path \in TilesetPaths THEN cache.tilesets[path] ELSE cache.templates[path]

\* C6: the reader is never invoked for a path that has a cache entry, and
\* when a load has returned, every path it handed a handle out for has a
\* cache entry.
C6_CacheBeforeReader ==
    /\ [][\A path \in TilesetPaths \cup TemplatePaths :
            CacheEntry(path).some => reads'[path] = reads[path]]_vars
    /\ [](frames = <<>> => \A pair \in served : CacheEntry(pair[1]).some)

-----------------------------------------------------------------------------
(* C13 *)

KnownTypes == {"bool", "float", "int", "color", "string", "object", "file"}

\* C13: PropertyValue::new fails with UnknownPropertyType exactly when the
\* type is outside {bool, float, int, color, string, object, file}; for a
\* type of the set every failure, also that of a color text shorter than 2
\* characters, is an InvalidPropertyValue.
C13_UnknownTypeExactly ==
    converted.call = "new" =>
        /\ property_type \notin KnownTypes =>
               converted.res = Err(UnknownPropertyType(property_type))
        /\ (property_type \in KnownTypes /\ IsErr(converted.res)) =>
               converted.res.err.kind = "InvalidPropertyValue"

-----------------------------------------------------------------------------
(* C14 *)

\* an optional '#', then 6 or 8 hexadecimal digits of either case
IsHexColor(text) ==
    LET s == strip_prefix(text) IN
    /\ Len(s) \in {6, 8}
    /\ \A i \in 1..Len(s) : HexVal(s[i]).some

\* the channel written by the i-th pair of digits
Channel(text, i) ==
    LET s == strip_prefix(text) IN
    16 * HexVal(s[2 * i - 1]).val + HexVal(s[2 * i]).val

HexColor(text) ==
    IF Len(strip_prefix(text)) = 6
    THEN Color(255, Channel(text, 1), Channel(text, 2), Channel(text, 3))
    ELSE Color(Channel(text, 1), Channel(text, 2), Channel(text, 3),
               Channel(text, 4))

\* C14: Color::from_str, called directly or for a "color" property, accepts
\* exactly the texts made of an optional '#' and 6 or 8 hexadecimal digits:
\* 6 digits give alpha 255 and red, green, blue; 8 digits give alpha, red,
\* green, blue; every other text is rejected.
C14_ExactlyHexColors ==
    /\ converted.call = "from_str" =>
         IF IsHexColor(value) THEN converted.res = Ok(HexColor(value))
         ELSE IsErr(converted.res)
    /\ (converted.call = "new" /\ property_type = "color") =>
         IF IsHexColor(value)
         THEN converted.res = Ok(PropertyValue("ColorValue", HexColor(value)))
         ELSE IsErr(converted.res)

-----------------------------------------------------------------------------
(* C11 *)

\* the token is white space or a comment
Skippable(tok) ==
    \/ tok.type = "Comment"
    \/ tok.type = "Text" /\ Trim(tok.text) = <<>>

\* the token opens a nested block
OpensBlock(tok) == tok.type = "Start" /\ tok.name = "properties"

\* the entry of k in the HashMap p
Entry(p, k) == {e.v : e \in {d \in p : d.k = k}}

\* C11: when the lookahead after a class-typed property finds no nested
\* properties block, the innermost mapping gets, under the property's name,
\* a class value with the property's propertytype ("" when the attribute is
\* absent) and an empty nested mapping, and no nested parse is started.
C11_ClassWithoutBlock ==
    [][ (pc = "lookahead" /\ ~Skippable(token'.val) /\ ~OpensBlock(token'.val)) =>
          /\ Len(props') = Len(props)
          /\ Entry(props'[Len(props')].p, prop.val.k)
               = { ClassValue(IF prop.val.p_t.some THEN prop.val.p_t.val ELSE "",
                              {}) }
          /\ \A i \in 1..Len(props) - 1 : props'[i] = props[i] ]_vars

\* a class property with propertytype "T" was stored with an empty mapping
\* after its lookahead read a closing tag
C11_Witness ==
    /\ pc = "ptag"
    /\ token.some /\ token.val.type = "End"
    /\ seen = 1
    /\ nread = 4
    /\ Len(props) = 1
    /\ Entry(props[1].p, "a") = {ClassValue("T", {})}

-----------------------------------------------------------------------------
(* C12 *)

\* the step ends the parse with res, or goes on with value stored under k
Outcome(res, k) ==
    IF IsOk(res)
    THEN /\ pc' = "ptag"
         /\ Len(props') = Len(props)
         /\ Entry(props'[Len(props')].p, k) = {res.val}
    ELSE pc' = "done" /\ result' = res

\* the property read by this step, if it is one that is not of type class
\* and has a name
PlainProperty(tok) ==
    /\ tok.attrs.some
    /\ tok.attrs.val.name.some
    /\ tok.attrs.val.type # Some("class")

TypeOf(attrs) == IF attrs.type.some THEN attrs.type.val ELSE "string"

\* C12: for a property that is not of type class, a value attribute is the
\* textual value; without the attribute the text content of the property,
\* read as the next token, is the value; a property with neither fails the
\* load with the missing-value error that names it.
C12_ValueOrMissing ==
    /\ [][ (pc = "ptag" /\ PlainProperty(token'.val)
                        /\ token'.val.attrs.val.value.some) =>
             Outcome(PropertyValue_new(TypeOf(token'.val.attrs.val),
                                       token'.val.attrs.val.value.val),
                     token'.val.attrs.val.name.val) ]_vars
    /\ [][ (pc = "value" /\ token'.val.type # "Err"
                         /\ ~(token'.val.type = "Text" /\ ~IsUtf8(token'.val.text))) =>
             IF token'.val.type = "Text" /\ prop.val.form = "Start"
             THEN Outcome(PropertyValue_new(prop.val.t, token'.val.text), prop.val.k)
             ELSE /\ pc' = "done"
                  /\ result' = Err(MalformedAttributes("is missing a value",
                                                       prop.val.k)) ]_vars

-----------------------------------------------------------------------------
(* C16 *)

\* C16: whenever a read of the next token returns a decoding error, also in
\* the lookahead after a class-typed property, the load ends there with the
\* token-decoding error and reads no further token.
C16_ReadErrorAborts ==
    (token.some /\ token.val.type = "Err") =>
        (pc = "done" /\ result = Err(XmlDecodingError))

-----------------------------------------------------------------------------
(* C20 *)

\* C20: in the lookahead after a class-typed property every white-space
\* text and every comment is skipped; the first other token decides: a
\* properties start tag starts the parse of a nested block, any other token
\* means no nested properties; that token is consumed and is never handed
\* to the enclosing parse_tag.
C20_LookaheadConsumes ==
    [][ (pc = "lookahead" /\ token'.val.type # "Err") =>
          /\ nread' = nread + 1
          /\ seen' = seen
          /\ IF Skippable(token'.val)
             THEN pc' = "lookahead" /\ props' = props /\ prop' = prop
             ELSE IF OpensBlock(token'.val)
             THEN /\ pc' = "ptag"
                  /\ props' = Append(props, [p |-> {}, owner |-> prop])
             ELSE /\ pc' = "ptag"
                  /\ Len(props') = Len(props)
                  /\ Entry(props'[Len(props')].p, prop.val.k) # {} ]_vars

\* after a class property, white space and a comment were skipped and the
\* next sibling <property> was consumed by the lookahead: parse_tag has
\* matched one token of the four read
C20_Witness ==
    /\ pc = "ptag"
    /\ nread = 6
    /\ seen = 1
    /\ token.some /\ token.val.attrs.some
    /\ Len(props) = 1
    /\ props[1].p = {[k |-> "a", v |-> ClassValue("", {})]}

\* a nested block was opened after white space
C20_WitnessNested ==
    /\ pc = "ptag"
    /\ Len(props) = 2
    /\ seen = 1
    /\ nread = 5

-----------------------------------------------------------------------------
(* C19 *)

\* C19: in the text scan of a csv or base64 payload a token that is not a
\* text, not the closing tag of <data> and not the end of input is ignored
\* and the scan goes on; the first text token read ends the scan and is the
\* text that is decoded.
C19_ScanIgnoresOtherTokens ==
    [][ (pc \in {"csv", "b64"} /\ token'.val.type # "Err") =>
          IF token'.val.type = "Text"
          THEN /\ pc' \notin {"csv", "b64"}
               /\ payload'.end = "text"
               /\ payload'.text = token'.val.text
               /\ pc = "csv" => ret' = decode_csv_text(token'.val.text, tilesets)
          ELSE IF token'.val.type = "End" /\ token'.val.name = "data"
          THEN payload'.end = "close"
          ELSE IF token'.val.type = "Eof"
          THEN payload'.end = "eof"
          ELSE /\ pc' = pc
               /\ skipped' = skipped + 1
               /\ ret' = Pending
               /\ payload' = NoPayload ]_vars

\* two tokens were ignored and the text read after them was decoded
C19_Witness ==
    /\ pc = "done"
    /\ skipped = 2
    /\ nread = 3
    /\ payload.end = "text"
    /\ payload.cells.some
    /\ ret = Ok(convert_to_tiles(CellBytes(payload.cells.val), tilesets))

-----------------------------------------------------------------------------
(* C17 *)

\* the names of the tracked elements read so far
Declared(name) == {i \in 1..Len(elements) : elements[i].name = name}

\* C17: the load of a template document whose <template> element holds no
\* <object> element fails with TemplateHasNoObject, unless the reader or a
\* child of the template failed first; a template is returned only if an
\* object was parsed, and it carries that object.
C17_TemplateHasNoObject ==
    (pc = "done" /\ Declared("template") # {}) =>
        /\ ( /\ Declared("object") = {}
             /\ docOpen = <<>>
             /\ ~(IsErr(result) /\ result.err.kind \in {"XmlDecodingError", "MalformedAttributes"}) )
           => result = Err(TemplateHasNoObject)
        /\ IsOk(result) =>
             /\ object.some
             /\ result.val.object = object.val
             /\ object.val \in {elements[i].at : i \in Declared("object")}

-----------------------------------------------------------------------------
(* C18 *)

\* C18: the objects of an object layer and the frames of an animation are
\* returned in the order of their elements in the document, one entry for
\* each element.
C18_DeclarationOrder ==
    (pc = "done" /\ IsOk(result) /\ Declared("template") = {}) =>
        result.val = [i \in 1..Len(elements) |-> elements[i].at]

-----------------------------------------------------------------------------
(* C21 *)

\* the step reads the close tag of the block parse_properties was called for
ReadsMatchingClose ==
    /\ pc \in {"ptag", "lookahead", "value"}
    /\ docOpen = <<"object", "properties">>
    /\ docOpen' = <<"object">>

\* the step reads a <property> child of that block, with a name
ReadsPropertyChild ==
    /\ pc \in {"ptag", "lookahead", "value"}
    /\ docOpen = <<"object", "properties">>
    /\ token'.val.name = "property"
    /\ token'.val.type \in {"Start", "Empty"}
    /\ token'.val.attrs.val.name.some

\* C21: parse_properties has returned once it has read the close tag that
\* matches the open tag of its block, also when the last child is a class
\* property without a nested block; it returns successfully at no other
\* token; and every <property> child of the block gets an entry in the
\* mapping, unless the load fails.
C21_StopsAtMatchingClose ==
    /\ [][ ReadsMatchingClose => pc' = "done" ]_vars
    /\ [][ (pc \in {"ptag", "lookahead", "value"} /\ pc' = "done" /\ IsOk(result'))
             => ReadsMatchingClose ]_vars
    /\ [][ (ReadsPropertyChild /\ pc' # "done") =>
             \/ Entry(props'[1].p, token'.val.attrs.val.name.val) # {}
             \/ prop'.some /\ prop'.val.k = token'.val.attrs.val.name.val ]_vars

-----------------------------------------------------------------------------
(* C23 *)

\* the <data> element the text scan was called for is open at the reader's
\* position
DataOpen == \E i \in 1..Len(docOpen) : docOpen[i] = "data"

\* C23: the text scan of parse_data_line reads no token beyond the close of
\* the element it was called for: every token it reads, and so every text it
\* decodes, lies inside that element, and an element closed without a text
\* gives the empty cell sequence.
C23_ScanStaysInElement ==
    [][ (pc \in {"csv", "b64"} /\ nread' = nread + 1) => (DataOpen) ]_vars

-----------------------------------------------------------------------------
(* C22 *)

Paths == TilesetPaths \cup TemplatePaths

\* the document at the path parses to the end
Parses(path) ==
    IF path \in TilesetPaths THEN docs[path] = "tileset"
    ELSE docs[path].root = "template" /\ docs[path].closed

\* C22: a load never removes or replaces a cache entry; an entry is put in
\* only by the step in which the parse of its document returns successfully,
\* and holds the handle of that parse, so a cache hit, which parses nothing,
\* leaves the cache as it is; a load that fails puts nothing in the cache
\* with its failing step and leaves no entry for a resource it was parsing.
C22_CacheGrowsByParsedOnly ==
    /\ [][ \A path \in Paths :
             /\ CacheEntry(path).some =>
                  IF path \in TilesetPaths
                  THEN cache'.tilesets[path] = cache.tilesets[path]
                  ELSE cache'.templates[path] = cache.templates[path]
             /\ (~CacheEntry(path).some /\ cache' # cache
                   /\ (IF path \in TilesetPaths THEN cache'.tilesets[path].some
                       ELSE cache'.templates[path].some)) =>
                  /\ frames # <<>> /\ Top.path = path
                  /\ Parses(path)
                  /\ made' = made + 1
                  /\ <<path, made'>> \in served'
                  /\ ~IsErr(out')
                  /\ (IF path \in TilesetPaths THEN cache'.tilesets[path]
                      ELSE cache'.templates[path]) = Some(made') ]_vars
    /\ [][ made' = made => cache' = cache ]_vars
    /\ [][ (IsErr(out') /\ ~IsErr(out)) =>
             /\ cache' = cache
             /\ \A i \in 1..Len(frames) : ~CacheEntry(frames[i].path).some
             /\ \A path \in Paths :
                  reads'[path] # reads[path] => ~CacheEntry(path).some ]_vars

\* the load of t.tx failed after it had put a.tsx in the cache, with u.tx in
\* the cache from the load before: both entries are there, none for t.tx
C22_Witness ==
    /\ frames = <<>>
    /\ IsErr(out)
    /\ loads = 2
    /\ cache.tilesets["a.tsx"].some
    /\ reads["a.tsx"] = 1
    /\ cache.templates["u.tx"].some
    /\ ~cache.templates["t.tx"].some
    /\ reads["t.tx"] = 1

-----------------------------------------------------------------------------
(* C24 *)

\* C24: every load returns, also when the documents reference each other
\* in a cycle, because no resource is loaded again while its own load is in
\* progress: the loads in progress are for pairwise distinct resources, so
\* their number is bounded by the number of documents.
C24_NoReentry ==
    \A i, j \in 1..Len(frames) : i < j => frames[i].path # frames[j].path

=============================================================================
